---- MODULE Spec2Model ----
(***************************************************************************)
(* The spaced-repetition scheduler of chinese_cli (srs.py): the SM-2       *)
(* update of one card, and the ProgressTracker that keeps the cards, the   *)
(* daily streak and the progress file.                                     *)
(*                                                                         *)
(* Python floats are IEEE-754 doubles.  A double v is written here as the  *)
(* pair [h, u] with v = h/100 + u * 2^(-58)/100: h is the value in         *)
(* hundredths, u the distance of the double from that decimal in units of  *)
(* 2^(-58)/100.  Every double of magnitude >= 2^(-6) is such a pair, and   *)
(* sums, differences and integer multiples are exact on pairs, so that     *)
(* the rounding of each float operation is computed, not assumed.          *)
(***************************************************************************)
EXTENDS Integers, Sequences, FiniteSets, TLC

(***************************************************************************)
(* Bounds of the model.                                                    *)
(***************************************************************************)
\* review calls in one behaviour that starts without a progress file
MaxReviews == 3
\* clock advances in one behaviour that starts without a progress file
MaxTicks == 1
\* review calls in one behaviour that starts from a given progress file
MaxFileReviews == 1
\* clock advances in one behaviour that starts from a given progress file
MaxFileTicks == 1
\* review calls in one behaviour in which writes fail and reviews are interrupted
MaxFaultReviews == 2
\* review calls in one behaviour in which the menu asks for due cards and statistics
MaxQueryReviews == 1
\* get_due_cards and get_stats calls in one such behaviour
MaxQueries == 1
\* clock advances in one such behaviour
MaxQueryTicks == 2
\* review calls in one behaviour in which quality is any int
MaxGradeReviews == 2
\* clock advances in one behaviour in which quality is any int
MaxGradeTicks == 1
\* review calls in one behaviour of repeated reviews of one card
MaxDrillReviews == 6
\* correct answers in a row that a property follows from a card on
MaxRun == 5
\* review calls in one behaviour of reviews and restarts
MaxRestartReviews == 2
\* clock advances in one behaviour of reviews and restarts
MaxRestartTicks == 2
\* review calls in one behaviour of sessions on several days
MaxDayReviews == 3
\* clock advances in one behaviour of sessions on several days
MaxDayTicks == 3
\* review calls in one behaviour that starts from a file with a session date
MaxDateReviews == 1
\* clock advances in one behaviour that starts from a file with a session date
MaxDateTicks == 3
\* clock advances between the readings of the clock in one call
MaxCallTicks == 1
\* the clock at the start: 2023-12-30 12:00:00 UTC
StartTime == 1703937600
\* seconds by which the clock advances in one step (half a day)
ClockStep == 43200

\* the catalog's item identifiers (vocab_data.ALL_VOCAB, hanzi)
Ids == {"a", "b"}
\* the item studied in a behaviour that starts without a progress file
Studied == {"a"}
\* the quality grades the callers pass
Qualities == 0..5
\* ints that review accepts as quality: it does not look at the range
AnyQualities == -3..9

----------------------------------------------------------------------------
(***************************************************************************)
(* IEEE-754 double arithmetic (round to nearest, ties to even).            *)
(***************************************************************************)
Float(h, u) == [h |-> h, u |-> u]

RECURSIVE Pow2Mod(_, _)
\* 2^n modulo m
Pow2Mod(n, m) == IF n = 0 THEN 1 % m ELSE (2 * Pow2Mod(n - 1, m)) % m

\* 2^n modulo 100, for the exponents of the doubles from 2^(-6) to 2^18
Pow2Mod100 == [n \in 34..58 |-> Pow2Mod(n, 100)]

\* 2^n modulo 200, for the same exponents
Pow2Mod200 == [n \in 34..58 |-> Pow2Mod(n, 200)]

\* 2^e <= h/100 + u * 2^(-58)/100, for h > 0 and -6 <= e
GeqPow2(h, u, e) ==
    IF e >= 0 THEN h > 100 * 2^e \/ (h = 100 * 2^e /\ u >= 0)
    ELSE IF e = -1 THEN h > 50 \/ (h = 50 /\ u >= 0)
    ELSE IF e = -2 THEN h > 25 \/ (h = 25 /\ u >= 0)
    ELSE h * 2^(-2 - e) > 25

\* the binary exponent of a positive value: 2^e <= value < 2^(e+1)
Exponent(h, u) ==
    CHOOSE e \in -6..17 : GeqPow2(h, u, e) /\ ~GeqPow2(h, u, e + 1)

\* the double nearest to the positive exact value h/100 + u * 2^(-58)/100
RoundPos(h, u) ==
    LET e    == Exponent(h, u)
        s    == e + 6
        ulp  == 100 * 2^s
        a100 == ((h % 100) * Pow2Mod100[52 - e]) % 100
        r    == (2^s * a100 + u) % ulp
        a200 == ((h % 200) * Pow2Mod200[52 - e]) % 200
        even == ((2^s * a200 + u - r) % (2 * ulp)) = 0
    IN  IF r = 0 THEN Float(h, u)
        ELSE IF 2 * r < ulp THEN Float(h, u - r)
        ELSE IF 2 * r > ulp THEN Float(h, u + ulp - r)
        ELSE IF even THEN Float(h, u - r)
        ELSE Float(h, u + ulp - r)

\* the double nearest to an exact value; a difference of nearby doubles
\* (h = 0) is exact
FRound(h, u) ==
    IF h = 0 THEN Float(0, u)
    ELSE IF h > 0 THEN RoundPos(h, u)
    ELSE LET p == RoundPos(-h, -u) IN Float(-p.h, -p.u)

\* a decimal literal with two decimals, such as 0.08 (h = 8)
FLit(h) == FRound(h, 0)
\* a + b
FAdd(a, b) == FRound(a.h + b.h, a.u + b.u)
\* a - b
FSub(a, b) == FRound(a.h - b.h, a.u - b.u)
\* n * a for an int n
FMulInt(n, a) == FRound(n * a.h, n * a.u)
\* a > b
FGt(a, b) == a.h > b.h \/ (a.h = b.h /\ a.u > b.u)
\* a >= b
FGeq(a, b) == a = b \/ FGt(a, b)
\* max(a, b): Python returns the first argument unless a later one is larger
FMax(a, b) == IF FGt(b, a) THEN b ELSE a

\* round(a) for a double a >= 0: the nearest int, a half to the even one
PyRound(a) ==
    LET n   == a.h \div 100
        rem == a.h % 100
    IN  IF rem > 50 THEN n + 1
        ELSE IF rem < 50 THEN n
        ELSE IF a.u > 0 THEN n + 1
        ELSE IF a.u < 0 THEN n
        ELSE IF n % 2 = 0 THEN n ELSE n + 1

----------------------------------------------------------------------------
(***************************************************************************)
(* Doubles in JSON text.  json.dumps writes a float as float.__repr__      *)
(* does: the decimal numeral with the fewest digits that reads back as the *)
(* same double, and of those the nearest to it.  json.loads reads a        *)
(* numeral as float() does: the double nearest to it.  A numeral is the    *)
(* pair [c, p] with value c/100 + p * 10^(-16): c is its value in          *)
(* hundredths and p its digits beyond them, as the 16th decimal place      *)
(* counts (1.4999999999999998 is [150, -2]).                               *)
(***************************************************************************)
Decimal(c, p) == [c |-> c, p |-> p]

\* the whole units of 2^(-58)/100 in p * 10^(-16), which is not whole for
\* p # 0: floor(p * 2^44 / 5^14), with 2^44 = 2882 * 5^14 + 23731 * 5^7 + 28791
UnitsFloor(p) == 2882 * p + (p * 23731 + (p * 28791) \div 78125) \div 78125

\* the double nearest to an exact value strictly between h/100 + f units
\* and h/100 + (f + 1) units of 2^(-58)/100
RoundOpen(h, f) ==
    LET e    == Exponent(h, f)
        s    == e + 6
        ulp  == 100 * 2^s
        a100 == ((h % 100) * Pow2Mod100[52 - e]) % 100
        r    == (2^s * a100 + f) % ulp
    IN  IF 2 * r < ulp THEN Float(h, f - r) ELSE Float(h, f + ulp - r)

\* float(numeral), as json.loads reads a number with a fraction part
parse_float(d) ==
    IF d.p = 0 THEN FLit(d.c) ELSE RoundOpen(d.c, UnitsFloor(d.p))

\* p * 10^(-16) > n units of 2^(-58)/100
UnitsAbove(p, n) == IF p = 0 THEN 0 > n ELSE UnitsFloor(p) >= n

RECURSIVE TrailingZeros(_)
\* the decimal places a numeral saves: the zeros that end p (0 saves all)
TrailingZeros(p) ==
    IF p = 0 THEN 16
    ELSE IF p % 10 = 0 THEN 1 + TrailingZeros(p \div 10)
    ELSE 0

\* the numeral with digits p1 is at least as near to the double with
\* drift u as the one with digits p2
Nearer(p1, p2, u) ==
    IF p1 = p2 THEN TRUE
    ELSE IF p1 < p2 THEN UnitsAbove(p1 + p2, 2 * u)
    ELSE ~UnitsAbove(p1 + p2, 2 * u)

\* of the digits ps, the ones that save the most decimal places and of
\* those the one nearest to the double with drift u
ShortestNearest(ps, u) ==
    LET most  == CHOOSE z \in 0..16 :
                    /\ \E p \in ps : TrailingZeros(p) = z
                    /\ \A p \in ps : TrailingZeros(p) <= z
        short == {p \in ps : TrailingZeros(p) = most}
    IN  CHOOSE p \in short : \A p2 \in short : Nearer(p, p2, u)

\* float_repr that keeps 15 significant digits, as "%.15g" does
float_repr_15_digits(a) ==
    Decimal(a.h, 10 * ((a.u \div 2882 + 5) \div 10))

\* float.__repr__(a) for a double 1 <= a < 10, as a numeral: the numeral
\* of two decimals if that reads back as a, and else the shortest and
\* nearest of the numerals that do, which are at most half an ulp from a
\* (50 * 2^(e + 6) units, e the binary exponent of a)
float_repr(a) ==
    LET half == (50 * 2^(Exponent(a.h, a.u) + 6)) \div 2882
        near == (a.u \div 2882 - half - 1) .. (a.u \div 2882 + half + 2)
    IN  IF parse_float(Decimal(a.h, 0)) = a THEN Decimal(a.h, 0)
        ELSE Decimal(a.h, ShortestNearest(
                        {p \in near : parse_float(Decimal(a.h, p)) = a}, a.u))

----------------------------------------------------------------------------
(***************************************************************************)
(* The doubles of accuracy.  A quotient of ints and what get_stats makes   *)
(* of it is written [p, u, q] with value p/q + u * 2^(-58)/q: the exact    *)
(* fraction p/q and the distance of the double from it.                    *)
(***************************************************************************)
QFloat(p, u, q) == [p |-> p, u |-> u, q |-> q]

\* 0.0
QZero == QFloat(0, 0, 1)

\* 2^e <= p/q + u * 2^(-58)/q, for p > 0
GeqPow2Q(p, u, q, e) ==
    IF e >= 0 THEN p > q * 2^e \/ (p = q * 2^e /\ u >= 0)
    ELSE p * 2^(-e) > q \/ (p * 2^(-e) = q /\ u >= 0)

\* the binary exponent of a positive value
ExponentQ(p, u, q) ==
    CHOOSE e \in -6..17 : GeqPow2Q(p, u, q, e) /\ ~GeqPow2Q(p, u, q, e + 1)

\* the double nearest to the exact value p/q + u * 2^(-58)/q >= 0
RoundQ(p, u, q) ==
    IF p = 0 /\ u = 0 THEN QZero
    ELSE
    LET e    == ExponentQ(p, u, q)
        s    == e + 6
        ulp  == q * 2^s
        a1   == ((p % q) * Pow2Mod(52 - e, q)) % q
        r    == (2^s * a1 + u) % ulp
        a2   == ((p % (2 * q)) * Pow2Mod(52 - e, 2 * q)) % (2 * q)
        even == ((2^s * a2 + u - r) % (2 * ulp)) = 0
    IN  IF r = 0 THEN QFloat(p, u, q)
        ELSE IF 2 * r < ulp THEN QFloat(p, u - r, q)
        ELSE IF 2 * r > ulp THEN QFloat(p, u + ulp - r, q)
        ELSE IF even THEN QFloat(p, u - r, q)
        ELSE QFloat(p, u + ulp - r, q)

\* c / t for ints c >= 0 and t > 0
QDivInts(c, t) == RoundQ(c, 0, t)
\* a * n for an int n >= 0
QMulInt(a, n) == RoundQ(n * a.p, n * a.u, a.q)
\* a + b
QAdd(a, b) == RoundQ(a.p * b.q + b.p * a.q, a.u * b.q + b.u * a.q, a.q * b.q)
\* a / n for an int n > 0
QDivInt(a, n) == RoundQ(a.p, a.u, a.q * n)
\* a == b
QEq(a, b) == a.p * b.q = b.p * a.q /\ a.u * b.q = b.u * a.q

----------------------------------------------------------------------------
(***************************************************************************)
(* UTC dates as strings.  The string that strftime("%Y-%m-%d") writes for  *)
(* a civil date is <<y, m, d>>.  strptime reads other strings as the same  *)
(* date: %Y and %d match the decimal digits of any script (a year in       *)
(* full-width or Arabic-Indic digits), and %m and %d match one digit       *)
(* where strftime writes a zero before it ("2023-12-5", "2024-1-01").      *)
(* Every date has such strings; one is <<y, m, d, "other">>,               *)
(* and it is equal to no string that strftime writes.  strptime raises     *)
(* ValueError on a string that is no date.  "" is <<>>.                    *)
(***************************************************************************)
SecondsPerDay == 86400

EmptyDate == <<>>

\* the civil date of day number z (days since 1970-01-01)
CivilFromDays(z) ==
    LET zz  == z + 719468
        era == zz \div 146097
        doe == zz - era * 146097
        yoe == (doe - doe \div 1460 + doe \div 36524 - doe \div 146096) \div 365
        doy == doe - (365 * yoe + yoe \div 4 - yoe \div 100)
        mp  == (5 * doy + 2) \div 153
        d   == doy - (153 * mp + 2) \div 5 + 1
        m   == IF mp < 10 THEN mp + 3 ELSE mp - 9
        y   == yoe + era * 400 + (IF m <= 2 THEN 1 ELSE 0)
    IN  <<y, m, d>>

\* the day number of a civil date
DaysFromCivil(date) ==
    LET y   == date[1] - (IF date[2] <= 2 THEN 1 ELSE 0)
        era == y \div 400
        yoe == y - era * 400
        mp  == IF date[2] > 2 THEN date[2] - 3 ELSE date[2] + 9
        doy == (153 * mp + 2) \div 5 + date[3] - 1
        doe == yoe * 365 + yoe \div 4 - yoe \div 100 + doy
    IN  era * 146097 + doe - 719468

IsLeap(y) == y % 4 = 0 /\ (y % 100 # 0 \/ y % 400 = 0)

DaysInMonth(y, m) ==
    IF m = 2 THEN (IF IsLeap(y) THEN 29 ELSE 28)
    ELSE IF m \in {4, 6, 9, 11} THEN 30 ELSE 31

\* datetime.now(timezone.utc).strftime("%Y-%m-%d") at time t
Today(t) == CivilFromDays(t \div SecondsPerDay)

\* whether datetime.strptime(s, "%Y-%m-%d") returns (else ValueError)
ParsesAsDate(s) ==
    /\ Len(s) = 3 \/ (Len(s) = 4 /\ s[4] = "other")
    /\ s[1] \in 1..9999
    /\ s[2] \in 1..12
    /\ s[3] \in 1..DaysInMonth(s[1], s[2])

----------------------------------------------------------------------------
(***************************************************************************)
(* CardState and the SM-2 update.                                          *)
(***************************************************************************)
\* the literals of srs.py
Lit_0_02 == FLit(2)
Lit_0_08 == FLit(8)
Lit_0_1 == FLit(10)
Lit_1_3 == FLit(130)
Lit_2_5 == FLit(250)

\* CardState(hanzi=hanzi): the dataclass defaults
CardState(hanzi) ==
    [hanzi           |-> hanzi,
     ease_factor     |-> Lit_2_5,
     interval        |-> 0,
     repetitions     |-> 0,
     next_review     |-> 0,
     total_reviews   |-> 0,
     correct_reviews |-> 0,
     last_reviewed   |-> 0]

CardFields ==
    {"hanzi", "ease_factor", "interval", "repetitions", "next_review",
     "total_reviews", "correct_reviews", "last_reviewed"}

\* is_due with the comparison strict
is_due_strict(card, t) == t > card.next_review

\* card.is_due at clock value t
is_due(card, t) == t >= card.next_review

\* EaseDelta without the term that is quadratic in 5 - quality
EaseDeltaLinear(quality) ==
    FSub(Lit_0_1, FMulInt(5 - quality, Lit_0_08))

\* 0.1 - (5 - quality) * (0.08 + (5 - quality) * 0.02)
EaseDelta(quality) ==
    FSub(Lit_0_1,
         FMulInt(5 - quality,
                 FAdd(Lit_0_08, FMulInt(5 - quality, Lit_0_02))))

\* mastery_level with "mastered" from 5 repetitions on
mastery_level_mastered_at_5(card) ==
    IF card.repetitions = 0 THEN "new"
    ELSE IF card.repetitions < 3 THEN "learning"
    ELSE IF card.repetitions < 5 THEN "reviewing"
    ELSE "mastered"

\* card.mastery_level
mastery_level(card) ==
    IF card.repetitions = 0 THEN "new"
    ELSE IF card.repetitions < 3 THEN "learning"
    ELSE IF card.repetitions < 6 THEN "reviewing"
    ELSE "mastered"

\* card.accuracy
accuracy(card) ==
    IF card.total_reviews = 0 THEN QZero
    ELSE QMulInt(QDivInts(card.correct_reviews, card.total_reviews), 100)

\* NextInterval that sets 6 after the second success as after the first
NextIntervalSixTwice(card) ==
    IF card.repetitions = 0 THEN 1
    ELSE IF card.repetitions <= 2 THEN 6
    ELSE PyRound(FMulInt(card.interval, card.ease_factor))

\* NextInterval with the product cut to an int, not rounded
NextIntervalTruncated(card) ==
    IF card.repetitions = 0 THEN 1
    ELSE IF card.repetitions = 1 THEN 6
    ELSE FMulInt(card.interval, card.ease_factor).h \div 100

\* the interval a successful review sets
NextInterval(card) ==
    IF card.repetitions = 0 THEN 1
    ELSE IF card.repetitions = 1 THEN 6
    ELSE PyRound(FMulInt(card.interval, card.ease_factor))

\* OnSuccess that adds 1 to repetitions before it sets the interval
OnSuccessCountsFirst(card) ==
    [card EXCEPT !.correct_reviews = @ + 1,
                 !.interval = NextInterval([card EXCEPT !.repetitions = @ + 1]),
                 !.repetitions = @ + 1]

\* the branch quality >= 3 of _sm2_update
OnSuccess(card) ==
    [card EXCEPT !.correct_reviews = @ + 1,
                 !.interval = NextInterval(card),
                 !.repetitions = @ + 1]

\* OnFailure without the reset of interval
OnFailureKeepsInterval(card) ==
    [card EXCEPT !.repetitions = 0]

\* OnFailure that resets correct_reviews with repetitions
OnFailureResetsCorrect(card) ==
    [card EXCEPT !.repetitions = 0, !.interval = 1, !.correct_reviews = 0]

\* OnFailure without the reset of repetitions
OnFailureKeepsRepetitions(card) ==
    [card EXCEPT !.interval = 1]

\* the branch quality < 3 of _sm2_update
OnFailure(card) ==
    [card EXCEPT !.repetitions = 0, !.interval = 1]

\* NextEase without max(1.3, ...)
NextEaseUnclamped(ease_factor, quality) ==
    FAdd(ease_factor, EaseDelta(quality))

\* the ease factor _sm2_update sets
NextEase(ease_factor, quality) ==
    FMax(Lit_1_3, FAdd(ease_factor, EaseDelta(quality)))

\* Sm2Update that brings quality into 0..5 first
Sm2UpdateClamped(card, quality, t1, t2) ==
    LET q         == IF quality > 5 THEN 5 ELSE IF quality < 0 THEN 0 ELSE quality
        counted   == [card EXCEPT !.total_reviews = @ + 1, !.last_reviewed = t1]
        graded    == IF q >= 3 THEN OnSuccess(counted) ELSE OnFailure(counted)
        eased     == [graded EXCEPT !.ease_factor = NextEase(@, q)]
    IN  [eased EXCEPT !.next_review = t2 + eased.interval * SecondsPerDay]

\* _sm2_update(card, quality): time.time() reads t1 for last_reviewed and,
\* after the update of interval and ease factor, t2 for next_review
Sm2Update(card, quality, t1, t2) ==
    LET counted   == [card EXCEPT !.total_reviews = @ + 1, !.last_reviewed = t1]
        graded    == IF quality >= 3 THEN OnSuccess(counted) ELSE OnFailure(counted)
        eased     == [graded EXCEPT !.ease_factor = NextEase(@, quality)]
    IN  [eased EXCEPT !.next_review = t2 + eased.interval * SecondsPerDay]

----------------------------------------------------------------------------
(***************************************************************************)
(* ProgressTracker.                                                        *)
(***************************************************************************)
VARIABLES
    cards,               \* self.cards: hanzi -> CardState
    order,               \* the keys of self.cards in the order of their insertion
    streak,              \* self.streak
    last_session_date,   \* self.last_session_date
    total_sessions,      \* self.total_sessions
    store,               \* the progress file
    now,                 \* the clock, in seconds since the epoch
    raised,              \* the exception that ended the process, if one did
    last,                \* the latest review call: its arguments and what it found
    asked                \* the latest get_due_cards or get_stats call and what it returned

vars ==
    <<cards, order, streak, last_session_date, total_sessions, store, now, raised,
      last, asked>>

\* no exception has left the program
NoException == "none"

(***************************************************************************)
(* The progress file.  Its kind tells what reading it gives:               *)
(*   "missing"      PROGRESS_FILE does not exist                           *)
(*   "undecodable"  bytes that are not UTF-8: read_text raises             *)
(*                  UnicodeDecodeError                                     *)
(*   "not_json"     text that json.loads rejects with JSONDecodeError, as  *)
(*                  an empty file or the first part of a JSON text         *)
(*   "too_deep"     JSON text with arrays or objects nested deeper than    *)
(*                  the recursion limit, anywhere in it: json.loads raises *)
(*                  RecursionError                                         *)
(*   "huge_number"  JSON text with an integer of more digits than int()    *)
(*                  converts (4300), anywhere in it: json.loads raises     *)
(*                  ValueError                                             *)
(*   "directory"    PROGRESS_FILE is a directory: read_text raises         *)
(*                  IsADirectoryError                                      *)
(*   "not_object"   JSON text of an array, a number, a string or null      *)
(*   "json"         JSON text of an object; data maps its keys to values   *)
(* The value of "cards" is [type |-> "object", members, order]: the        *)
(* records by key, and the keys in the order of the text; or it is         *)
(* [type |-> "array"], a value that is no object.  A number with a         *)
(* fraction part is a numeral [c, p]; time stamps are whole seconds.       *)
(***************************************************************************)
\* PROGRESS_FILE does not exist
NoFile == [kind |-> "missing"]

\* the file after write_text opened it and did not write all of the text:
\* it is empty, or it holds a first part of the text that ends between two
\* characters
Truncated == [kind |-> "not_json"]

\* the file after write_text wrote a first part of the text that ends
\* inside the UTF-8 bytes of a character: json.dumps(ensure_ascii=False)
\* writes the hanzi of the cards as they are, and save() writes a card
CutInCharacter == [kind |-> "undecodable"]

\* a JSON object of card records
Object(members, keys) == [type |-> "object", members |-> members, order |-> keys]

\* the default of data.get("cards", {})
EmptyObject == Object(<<>>, <<>>)

\* d.get(key, default)
Get(d, key, default) == IF key \in DOMAIN d THEN d[key] ELSE default

\* whether CardState(**state) returns (else TypeError): hanzi is given and
\* every key is a field
Constructs(state) == "hanzi" \in DOMAIN state /\ DOMAIN state \subseteq CardFields

\* CardState(**state) of a record that json.loads read: a missing field
\* takes its default
CardFromState(state) ==
    LET dflt == CardState(state.hanzi)
    IN  [f \in CardFields |->
            IF f \notin DOMAIN state THEN dflt[f]
            ELSE IF f = "ease_factor" THEN parse_float(state[f])
            ELSE state[f]]

\* the fields of a tracker that __init__ sets before _load
FreshTracker ==
    [cards |-> <<>>, order |-> <<>>, streak |-> 0, last_session_date |-> EmptyDate,
     total_sessions |-> 0, raised |-> NoException]

\* the keys of the records of cs that the loop of _load constructs, in the
\* order of the file: those before the first one that raises TypeError
LoadedOrder(cs) ==
    SubSeq(cs.order, 1,
           Cardinality({j \in 1..Len(cs.order) :
                           \A l \in 1..j : Constructs(cs.members[cs.order[l]])}))

\* the same keys as a set
LoadedKeys(cs) ==
    {cs.order[i] : i \in {j \in 1..Len(cs.order) :
                             \A l \in 1..j : Constructs(cs.members[cs.order[l]])}}

\* ProgressTracker(): __init__ and _load of the progress file; raised is
\* the exception that _load does not catch
LoadWithoutSessionDate(file) ==
    IF file.kind # "json" THEN FreshTracker
    ELSE LET data == file.data
             cs   == Get(data, "cards", EmptyObject)
         IN  [cards             |-> [k \in LoadedKeys(cs) |->
                                        CardFromState(cs.members[k])],
              order             |-> LoadedOrder(cs),
              streak            |-> Get(data, "streak", 0),
              last_session_date |-> EmptyDate,
              total_sessions    |-> Get(data, "total_sessions", 0),
              raised            |-> NoException]

\* ProgressTracker() on the progress file: the tracker _load leaves, and the
\* exception that leaves the constructor
Load(file) ==
    IF file.kind = "missing" THEN FreshTracker
    ELSE IF file.kind = "undecodable"
    THEN [FreshTracker EXCEPT !.raised = "UnicodeDecodeError"]
    ELSE IF file.kind = "directory"
    THEN [FreshTracker EXCEPT !.raised = "IsADirectoryError"]
    ELSE IF file.kind = "not_json" THEN FreshTracker
    ELSE IF file.kind = "too_deep"
    THEN [FreshTracker EXCEPT !.raised = "RecursionError"]
    ELSE IF file.kind = "huge_number"
    THEN [FreshTracker EXCEPT !.raised = "ValueError"]
    ELSE IF file.kind = "not_object"
    THEN [FreshTracker EXCEPT !.raised = "AttributeError"]
    ELSE LET data == file.data
             cs   == Get(data, "cards", EmptyObject)
         IN  [cards             |-> IF cs.type = "object"
                                    THEN [k \in LoadedKeys(cs) |->
                                             CardFromState(cs.members[k])]
                                    ELSE <<>>,
              order             |-> IF cs.type = "object" THEN LoadedOrder(cs)
                                    ELSE <<>>,
              streak            |-> Get(data, "streak", 0),
              last_session_date |-> Get(data, "last_session_date", EmptyDate),
              total_sessions    |-> Get(data, "total_sessions", 0),
              raised            |-> IF cs.type = "object" THEN NoException
                                    ELSE "AttributeError"]

\* asdict(card) as json.dumps writes it
asdict(card) == [card EXCEPT !.ease_factor = float_repr(@)]

\* the file save() writes: the three counters, and asdict of every card
\* in the order of self.cards
Save(cs, ord, st, lsd, ts) ==
    [kind |-> "json",
     data |-> [streak            |-> st,
               last_session_date |-> lsd,
               total_sessions    |-> ts,
               cards             |-> Object([k \in DOMAIN cs |-> asdict(cs[k])], ord)]]

\* get_card that makes a new card whether or not there is one
get_card_always_new(cs, hanzi) ==
    [k \in DOMAIN cs \cup {hanzi} |->
        IF k = hanzi THEN CardState(hanzi) ELSE cs[k]]

\* self.cards after get_card(hanzi)
get_card(cs, hanzi) ==
    IF hanzi \in DOMAIN cs THEN cs
    ELSE [k \in DOMAIN cs \cup {hanzi} |->
            IF k = hanzi THEN CardState(hanzi) ELSE cs[k]]

\* the order of the keys of self.cards after get_card(hanzi): a new key
\* comes last
get_card_order(ord, hanzi) ==
    IF \E i \in DOMAIN ord : ord[i] = hanzi THEN ord ELSE Append(ord, hanzi)

\* the variable named yesterday in _update_streak: it is computed as today
\* is, from a reading of the clock of its own
Yesterday(t) == Today(t)

\* StreakAfterGap that starts the streak again on every new day
StreakAfterGapAlwaysResets(st, diff) ==
    IF diff >= 1 THEN 1 ELSE st

\* StreakAfterGap that never starts the streak again
StreakAfterGapNeverResets(st, diff) ==
    IF diff >= 1 THEN st + 1 ELSE st

\* StreakAfterGap that ends a broken streak at 0
StreakAfterGapEndsAtZero(st, diff) ==
    IF diff = 1 THEN st + 1
    ELSE IF diff > 1 THEN 0
    ELSE st

\* the streak after a session diff days after the last one
StreakAfterGap(st, diff) ==
    IF diff = 1 THEN st + 1
    ELSE IF diff > 1 THEN 1
    ELSE st

\* the streak _update_streak sets when last_session_date is not today:
\* datetime.now() read t1 for today and reads t2 for yesterday
NewStreak(st, lsd, t1, t2) ==
    IF lsd = Yesterday(t2) \/ lsd = EmptyDate THEN st + 1
    ELSE IF ~ParsesAsDate(lsd) THEN 1
    ELSE StreakAfterGap(st, DaysFromCivil(Today(t1)) - DaysFromCivil(lsd))

\* update_streak without the comparison of last_session_date to today
update_streak_every_call(st, lsd, ts, t1, t2) ==
    [streak            |-> NewStreak(st, lsd, t1, t2),
     last_session_date |-> Today(t1),
     total_sessions    |-> ts + 1]

\* update_streak that leaves last_session_date on a new date
update_streak_keeps_date(st, lsd, ts, t1, t2) ==
    IF lsd # Today(t1)
    THEN [streak            |-> NewStreak(st, lsd, t1, t2),
          last_session_date |-> lsd,
          total_sessions    |-> ts + 1]
    ELSE [streak |-> st, last_session_date |-> lsd, total_sessions |-> ts]

\* _update_streak(): the streak, the session date and the session count
\* after it; datetime.now() reads t1 for today and, when the string
\* last_session_date is not the string today, t2 for yesterday
update_streak(st, lsd, ts, t1, t2) ==
    IF lsd # Today(t1)
    THEN [streak            |-> NewStreak(st, lsd, t1, t2),
          last_session_date |-> Today(t1),
          total_sessions    |-> ts + 1]
    ELSE [streak |-> st, last_session_date |-> lsd, total_sessions |-> ts]

RECURSIVE DueFrom(_, _, _, _)
\* the keys ord[i], ord[i + 1], ... whose card is due, is_due reading the
\* clock value reads[j] for the card of ord[j]
DueFrom(cs, ord, reads, i) ==
    IF i > Len(ord) THEN <<>>
    ELSE (IF is_due(cs[ord[i]], reads[i]) THEN <<ord[i]>> ELSE <<>>)
         \o DueFrom(cs, ord, reads, i + 1)

\* get_due_cards(): the list of the due keys in the order of self.cards;
\* is_due reads the clock once for every card
get_due_cards(cs, ord, reads) == DueFrom(cs, ord, reads, 1)

RECURSIVE total_acc(_, _, _)
\* total_acc after the first n rounds of the loop of get_stats over
\* self.cards.values(): the sum of the accuracy of the reviewed ones
total_acc(cs, ord, n) ==
    IF n = 0 THEN QZero
    ELSE IF cs[ord[n]].total_reviews > 0
    THEN QAdd(total_acc(cs, ord, n - 1), accuracy(cs[ord[n]]))
    ELSE total_acc(cs, ord, n - 1)

\* avg_accuracy with the sum divided by the number of all cards
avg_accuracy_of_all_cards(cs, ord) ==
    IF DOMAIN cs # {}
    THEN QDivInt(total_acc(cs, ord, Len(ord)), Cardinality(DOMAIN cs))
    ELSE QZero

\* the avg_accuracy that get_stats() returns
avg_accuracy(cs, ord) ==
    LET reviewed == {k \in DOMAIN cs : cs[k].total_reviews > 0}
    IN  IF Cardinality(reviewed) > 0
        THEN QDivInt(total_acc(cs, ord, Len(ord)), Cardinality(reviewed))
        ELSE QZero

\* get_stats(): due_now is the length of get_due_cards(), which reads the
\* clock once for every card
get_stats(cs, ord, st, ts, reads) ==
    [total_learned  |-> Cardinality(DOMAIN cs),
     new            |-> Cardinality({k \in DOMAIN cs : mastery_level(cs[k]) = "new"}),
     learning       |-> Cardinality({k \in DOMAIN cs : mastery_level(cs[k]) = "learning"}),
     reviewing      |-> Cardinality({k \in DOMAIN cs : mastery_level(cs[k]) = "reviewing"}),
     mastered       |-> Cardinality({k \in DOMAIN cs : mastery_level(cs[k]) = "mastered"}),
     due_now        |-> Len(get_due_cards(cs, ord, reads)),
     streak         |-> st,
     total_sessions |-> ts,
     avg_accuracy   |-> avg_accuracy(cs, ord)]

\* the readings of the clock that review makes: two in _sm2_update, one in
\* _update_streak for today and, when last_session_date is not today,
\* one for yesterday
ReviewReads(lsd, reads) ==
    IF lsd # Today(reads[3]) THEN reads ELSE SubSeq(reads, 1, 3)

\* review(hanzi, quality) on the tracker tr, when the write succeeds: the
\* tracker after the call; the clock reads reads[1], reads[2], ...
review(tr, hanzi, quality, reads) ==
    LET found == get_card(tr.cards, hanzi)
        s     == update_streak(tr.streak, tr.last_session_date,
                               tr.total_sessions, reads[3], reads[4])
        cs    == [found EXCEPT ![hanzi] = Sm2Update(found[hanzi], quality,
                                                    reads[1], reads[2])]
    IN  [cards             |-> cs,
         order             |-> get_card_order(tr.order, hanzi),
         streak            |-> s.streak,
         last_session_date |-> s.last_session_date,
         total_sessions    |-> s.total_sessions,
         raised            |-> NoException]

----------------------------------------------------------------------------
(***************************************************************************)
(* The state after construction and the operations.                        *)
(***************************************************************************)
NoCall ==
    [n |-> 0, hanzi |-> "", quality |-> 0, reads |-> <<>>, card |-> CardState(""),
     streak |-> 0, last_session_date |-> EmptyDate, total_sessions |-> 0,
     outcome |-> "none", returned |-> 0]

\* no get_due_cards or get_stats call yet
NoQuery ==
    [n |-> 0, op |-> "none", due |-> <<>>,
     stats |-> get_stats(<<>>, <<>>, 0, 0, <<>>)]

\* a tracker constructed when no progress file exists
Init ==
    /\ store = NoFile
    /\ cards = Load(NoFile).cards
    /\ order = Load(NoFile).order
    /\ streak = Load(NoFile).streak
    /\ last_session_date = Load(NoFile).last_session_date
    /\ total_sessions = Load(NoFile).total_sessions
    /\ raised = Load(NoFile).raised
    /\ now = StartTime
    /\ last = NoCall
    /\ asked = NoQuery

\* the values that n readings of the clock give in one call that begins
\* at the clock value now and ends at until or before: the first reads now,
\* and time passes between two readings or it does not
ClockReads(n, until) ==
    {reads \in [1..n -> {now + k * ClockStep : k \in 0..MaxCallTicks}] :
        /\ n >= 1 => reads[1] = now
        /\ \A i \in 1..(n - 1) : reads[i] <= reads[i + 1]
        /\ \A i \in 1..n : reads[i] <= until}

\* the clock after a call that read it as reads
ClockAfter(reads) == IF reads = <<>> THEN now ELSE reads[Len(reads)]

\* what last holds after a call review(hanzi, quality) that read the clock
\* as reads and ends as outcome
Call(hanzi, quality, reads, outcome) ==
    [n |-> last.n + 1, hanzi |-> hanzi, quality |-> quality,
     reads |-> reads, card |-> get_card(cards, hanzi)[hanzi], streak |-> streak,
     last_session_date |-> last_session_date,
     total_sessions |-> total_sessions,
     outcome |-> outcome,
     returned |-> IF outcome = "returned" THEN last.returned + 1 ELSE last.returned]

\* the callers of review.  mode_flashcards stands for the modes that call
\* it inside try ... except KeyboardInterrupt (mode_flashcards, mode_review,
\* mode_tone_practice, mode_pinyin_dictation, mode_hsk_simulator);
\* mode_quiz calls it outside any try statement
Modes == {"mode_flashcards", "mode_quiz"}

\* Catches in which save() catches the OSError of its write
CatchesInSave(frame) ==
    IF frame = "save" THEN {"OSError"}
    ELSE IF frame \in {"mode_flashcards", "main"} THEN {"KeyboardInterrupt"}
    ELSE {}

\* the exceptions that a frame catches around the call it makes: save and
\* review have no try statement, mode_quiz has none, the other modes and
\* main catch KeyboardInterrupt
Catches(frame) ==
    IF frame \in {"mode_flashcards", "main"} THEN {"KeyboardInterrupt"}
    ELSE {}

\* the frames around a statement of review or of the save() it calls,
\* the innermost first
ReviewStack(mode) == <<"save", "review", mode, "main">>

\* the frames around the save() that main calls when the user quits
QuitStack == <<"save", "main">>

RECURSIVE CaughtIn(_, _)
\* the first of the frames that catches the exception exc, "none" when it
\* leaves them all
CaughtIn(exc, frames) ==
    IF frames = <<>> THEN "none"
    ELSE IF exc \in Catches(Head(frames)) THEN Head(frames)
    ELSE CaughtIn(exc, Tail(frames))

\* the exception that ends the process after exc was raised inside the
\* frames: exc when no frame catches it, SystemExit when main catches it
\* (it calls sys.exit(0)), none when a frame below main catches it
Ends(exc, frames) ==
    LET frame == CaughtIn(exc, frames)
    IN  IF frame = "none" THEN exc
        ELSE IF frame = "main" THEN "SystemExit"
        ELSE NoException

\* how a call of review ends in which exc was raised: it returns when save
\* or review catches exc, else exc leaves it
Outcome(exc, frames) ==
    IF CaughtIn(exc, frames) \in {"save", "review"} THEN "returned"
    ELSE IF exc = "KeyboardInterrupt" THEN "interrupted"
    ELSE exc

\* ReviewInMemory that keeps the reviewed card only
ReviewInMemoryAlone(hanzi, quality, reads) ==
    LET found == get_card(cards, hanzi)
        s     == update_streak(streak, last_session_date, total_sessions,
                               reads[3], reads[4])
    IN  /\ cards' = [k \in {hanzi} |->
                        Sm2Update(found[hanzi], quality, reads[1], reads[2])]
        /\ order' = <<hanzi>>
        /\ streak' = s.streak
        /\ last_session_date' = s.last_session_date
        /\ total_sessions' = s.total_sessions

\* the first three statements of review(hanzi, quality): get_card,
\* _sm2_update and _update_streak
ReviewInMemory(hanzi, quality, reads) ==
    LET found == get_card(cards, hanzi)
        s     == update_streak(streak, last_session_date, total_sessions,
                               reads[3], reads[4])
    IN  /\ cards' = [found EXCEPT
                        ![hanzi] = Sm2Update(found[hanzi], quality,
                                             reads[1], reads[2])]
        /\ order' = get_card_order(order, hanzi)
        /\ streak' = s.streak
        /\ last_session_date' = s.last_session_date
        /\ total_sessions' = s.total_sessions

\* Review that writes the reviewed card and the counters, not the other cards
ReviewSavesCardAlone(hanzi, quality, reads) ==
    /\ raised = NoException
    /\ ReviewInMemory(hanzi, quality, reads)
    /\ store' = Save([k \in {hanzi} |-> cards'[k]], <<hanzi>>, streak',
                     last_session_date', total_sessions')
    /\ now' = ClockAfter(ReviewReads(last_session_date, reads))
    /\ last' = Call(hanzi, quality, ReviewReads(last_session_date, reads), "returned")
    /\ UNCHANGED <<raised, asked>>

\* review(hanzi, quality): get_card, _sm2_update, _update_streak, save
Review(hanzi, quality, reads) ==
    /\ raised = NoException
    /\ ReviewInMemory(hanzi, quality, reads)
    /\ store' = Save(cards', order', streak', last_session_date', total_sessions')
    /\ now' = ClockAfter(ReviewReads(last_session_date, reads))
    /\ last' = Call(hanzi, quality, ReviewReads(last_session_date, reads), "returned")
    /\ UNCHANGED <<raised, asked>>

\* review(hanzi, quality) in which save() fails: mkdir or the opening of
\* the file raises OSError and the file is as it was, or the writing raises
\* it after the file was opened and emptied and holds none of the text or
\* a first part of its bytes.  The error goes up the frames of the call;
\* none of them catches it, so it leaves review and ends the process.
ReviewWriteFails(hanzi, quality, reads) ==
    /\ raised = NoException
    /\ ReviewInMemory(hanzi, quality, reads)
    /\ store' \in {store, Truncated, CutInCharacter}
    /\ now' = ClockAfter(ReviewReads(last_session_date, reads))
    /\ \E mode \in Modes :
          /\ raised' = Ends("OSError", ReviewStack(mode))
          /\ last' = Call(hanzi, quality, ReviewReads(last_session_date, reads),
                          Outcome("OSError", ReviewStack(mode)))
    /\ UNCHANGED asked

\* the fields of the card that _sm2_update(card, quality) assigns, in the
\* order of its assignments
Sm2Assignments(quality) ==
    IF quality >= 3
    THEN <<"total_reviews", "last_reviewed", "correct_reviews", "interval",
           "repetitions", "ease_factor", "next_review">>
    ELSE <<"total_reviews", "last_reviewed", "repetitions", "interval",
           "ease_factor", "next_review">>

\* the card after the first n assignments of _sm2_update(card, quality):
\* it assigns every field once
Sm2Partial(card, quality, t1, t2, n) ==
    LET done     == Sm2Update(card, quality, t1, t2)
        assigned == {Sm2Assignments(quality)[i] : i \in 1..n}
    IN  [f \in DOMAIN card |-> IF f \in assigned THEN done[f] ELSE card[f]]

\* the streak, the session date and the session count after the first n
\* assignments of _update_streak(): streak, last_session_date, total_sessions
StreakPartial(st, lsd, ts, t1, t2, n) ==
    LET done == update_streak(st, lsd, ts, t1, t2)
    IN  [streak            |-> IF n >= 1 THEN done.streak ELSE st,
         last_session_date |-> IF n >= 2 THEN done.last_session_date ELSE lsd,
         total_sessions    |-> IF n >= 3 THEN done.total_sessions ELSE ts]

\* the points of review after which a KeyboardInterrupt can arrive, each
\* named by what was done last: "review" is the call before it assigns
\* anything, "get_card" the card found or inserted, a field of the card its
\* assignment in _sm2_update, "_sm2_update" the last assignment of
\* _sm2_update (next_review), "streak" and "last_session_date" their
\* assignments in _update_streak, "_update_streak" its last assignment
\* (total_sessions), "write_text" the opening of the file, which empties
\* it, and "save" the writing of the text
InterruptPoints ==
    {"review", "get_card", "total_reviews", "last_reviewed", "correct_reviews",
     "interval", "repetitions", "ease_factor", "_sm2_update", "streak",
     "last_session_date", "_update_streak", "write_text", "save"}

\* the points in a review of the given quality: _sm2_update assigns
\* correct_reviews when quality >= 3
PointsOf(quality) ==
    IF quality >= 3 THEN InterruptPoints ELSE InterruptPoints \ {"correct_reviews"}

\* how many assignments of _sm2_update(card, quality) are done at a point
Sm2Done(quality, point) ==
    LET fields == Sm2Assignments(quality)
    IN  IF point \in {"review", "get_card"} THEN 0
        ELSE IF \E i \in 1..(Len(fields) - 1) : fields[i] = point
        THEN CHOOSE i \in 1..(Len(fields) - 1) : fields[i] = point
        ELSE Len(fields)

\* how many assignments of _update_streak() are done at a point
StreakDone(point) ==
    IF point = "streak" THEN 1
    ELSE IF point = "last_session_date" THEN 2
    ELSE IF point \in {"_update_streak", "write_text", "save"} THEN 3
    ELSE 0

\* the readings of the clock that review can have made when the interrupt
\* arrives after a point.  review reads the clock before it assigns what
\* it read: reads[1] after total_reviews is assigned and before
\* last_reviewed is, reads[2] after ease_factor and before next_review,
\* and those of _update_streak (for today and, when last_session_date is
\* not today, for yesterday) after _sm2_update and before streak
ReadsMade(quality, point, lsd, reads) ==
    LET all    == ReviewReads(lsd, reads)
        done   == Sm2Done(quality, point)
        counts == IF StreakDone(point) >= 1 THEN {Len(all)}
                  ELSE IF point = "_sm2_update" THEN 2..Len(all)
                  ELSE IF done = Len(Sm2Assignments(quality)) - 1 THEN {1, 2}
                  ELSE IF done >= 2 THEN {1}
                  ELSE IF done = 1 THEN {0, 1}
                  ELSE {0}
    IN  {SubSeq(reads, 1, n) : n \in counts}

\* review(hanzi, quality), called by mode, that a KeyboardInterrupt ends
\* after the point: the tracker keeps what was assigned before it, and
\* the clock stands at the last reading the call made, assigned or not.
\* The mode catches the interrupt and the program goes on with that
\* tracker, or, from mode_quiz, main catches it and the process exits.
ReviewInterrupted(hanzi, quality, reads, point, mode) ==
    /\ raised = NoException
    /\ point \in PointsOf(quality)
    /\ LET found == get_card(cards, hanzi)
           s     == StreakPartial(streak, last_session_date, total_sessions,
                                  reads[3], reads[4], StreakDone(point))
       IN  /\ cards' = IF point = "review" THEN cards
                       ELSE [found EXCEPT
                                ![hanzi] = Sm2Partial(@, quality, reads[1], reads[2],
                                                      Sm2Done(quality, point))]
           /\ order' = IF point = "review" THEN order
                       ELSE get_card_order(order, hanzi)
           /\ streak' = s.streak
           /\ last_session_date' = s.last_session_date
           /\ total_sessions' = s.total_sessions
           /\ store' = IF point = "write_text" THEN Truncated
                       ELSE IF point = "save"
                       THEN Save(cards', order', streak', last_session_date',
                                 total_sessions')
                       ELSE store
           /\ \E made \in ReadsMade(quality, point, last_session_date, reads) :
                 /\ now' = ClockAfter(made)
                 /\ last' = Call(hanzi, quality, made,
                                 Outcome("KeyboardInterrupt", ReviewStack(mode)))
    /\ raised' = Ends("KeyboardInterrupt", ReviewStack(mode))
    /\ UNCHANGED asked

\* get_card(hanzi) called on its own (as modes.py does)
GetCard(hanzi) ==
    /\ raised = NoException
    /\ cards' = get_card(cards, hanzi)
    /\ order' = get_card_order(order, hanzi)
    /\ UNCHANGED <<streak, last_session_date, total_sessions, store, now, raised,
                   last, asked>>

\* get_due_cards(): reads the cards and, for each, the clock, and returns
\* a list
GetDueCards(reads) ==
    /\ raised = NoException
    /\ asked' = [asked EXCEPT !.n = @ + 1, !.op = "get_due_cards",
                              !.due = get_due_cards(cards, order, reads)]
    /\ now' = ClockAfter(reads)
    /\ UNCHANGED <<cards, order, streak, last_session_date, total_sessions, store,
                   raised, last>>

\* GetStats that looks every item of the catalog up with get_card
GetStatsMakesCards(reads) ==
    /\ raised = NoException
    /\ asked' = [asked EXCEPT !.n = @ + 1, !.op = "get_stats",
                              !.stats = get_stats(cards, order, streak,
                                                  total_sessions, reads)]
    /\ cards' = [k \in Ids |-> IF k \in DOMAIN cards THEN cards[k] ELSE CardState(k)]
    /\ order' = get_card_order(get_card_order(order, "a"), "b")
    /\ now' = ClockAfter(reads)
    /\ UNCHANGED <<streak, last_session_date, total_sessions, store, raised, last>>

\* get_stats(): reads the cards, the counters and, for each card, the
\* clock, and returns a dict
GetStats(reads) ==
    /\ raised = NoException
    /\ asked' = [asked EXCEPT !.n = @ + 1, !.op = "get_stats",
                              !.stats = get_stats(cards, order, streak,
                                                  total_sessions, reads)]
    /\ now' = ClockAfter(reads)
    /\ UNCHANGED <<cards, order, streak, last_session_date, total_sessions, store,
                   raised, last>>

\* save() called by the menu on exit (cli.py)
SaveOnExit ==
    /\ raised = NoException
    /\ store' = Save(cards, order, streak, last_session_date, total_sessions)
    /\ UNCHANGED <<cards, order, streak, last_session_date, total_sessions, now,
                   raised, last, asked>>

\* whether the text save() writes of cs and lsd can hold a character of
\* more than one byte: json.dumps(..., ensure_ascii=False) writes the hanzi
\* of the cards and last_session_date as they are, and a date that
\* strftime did not write can have digits of another script
WritesWideCharacter(cs, lsd) ==
    DOMAIN cs # {} \/ Len(lsd) = 4

\* the save() of the quit in which mkdir or write_text raises OSError: the
\* file is as it was, or emptied, or holds a first part of the bytes (one
\* that can end inside a character when the text has a hanzi or a date
\* in digits of another script); no frame catches the error and it ends
\* the process
SaveOnExitFails ==
    /\ raised = NoException
    /\ store' \in {store, Truncated}
                  \cup (IF WritesWideCharacter(cards, last_session_date)
                        THEN {CutInCharacter} ELSE {})
    /\ raised' = Ends("OSError", QuitStack)
    /\ UNCHANGED <<cards, order, streak, last_session_date, total_sessions, now,
                   last, asked>>

\* the save() of the quit that a KeyboardInterrupt ends: before the file
\* is opened, after it was opened and emptied, or after it was written;
\* main catches the interrupt and the process exits
SaveOnExitInterrupted ==
    /\ raised = NoException
    /\ store' \in {store, Truncated,
                   Save(cards, order, streak, last_session_date, total_sessions)}
    /\ raised' = Ends("KeyboardInterrupt", QuitStack)
    /\ UNCHANGED <<cards, order, streak, last_session_date, total_sessions, now,
                   last, asked>>

\* the program is started again: ProgressTracker() reads the progress file
Restart ==
    /\ LET loaded == Load(store)
       IN  /\ cards' = loaded.cards
           /\ order' = loaded.order
           /\ streak' = loaded.streak
           /\ last_session_date' = loaded.last_session_date
           /\ total_sessions' = loaded.total_sessions
           /\ raised' = loaded.raised
    /\ UNCHANGED <<store, now, last, asked>>

\* time passes
Tick ==
    /\ now' = now + ClockStep
    /\ UNCHANGED <<cards, order, streak, last_session_date, total_sessions, store,
                   raised, last, asked>>

\* review called on the studied item
ReviewCall ==
    \E hanzi \in Studied, quality \in Qualities :
        \E reads \in ClockReads(4, StartTime + MaxTicks * ClockStep) :
            last.n < MaxReviews /\ Review(hanzi, quality, reads)

ClockTick == now < StartTime + MaxTicks * ClockStep /\ Tick

Next ==
    \/ ReviewCall
    \/ \E hanzi \in Ids : GetCard(hanzi)
    \/ SaveOnExit
    \/ Restart
    \/ ClockTick

\* the program from its first start, with no progress file
Spec == Init /\ [][Next]_vars

----------------------------------------------------------------------------
(***************************************************************************)
(* The program started on a progress file it is given: files that save()   *)
(* can have written, files with keys or card fields missing (they take     *)
(* their defaults), card states of every shape, session dates before, at   *)
(* and after the clock or no dates at all, and malformed files.            *)
(***************************************************************************)
RECURSIVE EaseAfter(_, _)
\* the ease factor after reviews of the qualities qs
EaseAfter(ease_factor, qs) ==
    IF qs = <<>> THEN ease_factor
    ELSE EaseAfter(NextEase(ease_factor, Head(qs)), Tail(qs))

\* ease factors as the file has them: 1.3, 2.0, 2.5, and the numerals of
\* the two doubles that a new card has after the qualities 2, 1, 3
\* (1.4999999999999998) and 5, 5, 5, 5 (2.9000000000000004)
EaseInputs ==
    {Decimal(130, 0), Decimal(200, 0), Decimal(250, 0),
     Decimal(150, -2), Decimal(290, 4)}

\* <<repetitions, interval>> of a stored card
ProgressInputs ==
    {<<0, 0>>, <<1, 1>>, <<2, 6>>, <<3, 9>>, <<4, 10>>, <<4, 45>>,
     <<5, 131>>, <<6, 300>>}

\* the stored state of a card
StoredCard(hanzi, ef, prog, due) ==
    [hanzi           |-> hanzi,
     ease_factor     |-> ef,
     interval        |-> prog[2],
     repetitions     |-> prog[1],
     next_review     |-> due,
     total_reviews   |-> prog[1] + 1,
     correct_reviews |-> prog[1],
     last_reviewed   |-> due - prog[2] * SecondsPerDay]

\* the members of the "cards" object of a file
CardsInputs ==
    {[a |-> StoredCard("a", ef, prog, StartTime + ClockStep),
      b |-> StoredCard("b", Decimal(250, 0), <<1, 1>>, StartTime - ClockStep)] :
         ef \in EaseInputs, prog \in ProgressInputs}
    \cup {[a |-> [hanzi |-> "a"]],
          [a |-> [hanzi |-> "a", repetitions |-> 2, interval |-> 6]]}

\* the session keys of a file
SessionInputs ==
    {[streak |-> 3, total_sessions |-> 4],
     [streak |-> 3, total_sessions |-> 4, last_session_date |-> <<2023, 12, 30>>],
     [streak |-> 3, total_sessions |-> 4, last_session_date |-> <<2023, 12, 29>>],
     [streak |-> 3, total_sessions |-> 4, last_session_date |-> <<2023, 12, 27>>],
     [streak |-> 3, total_sessions |-> 4, last_session_date |-> <<2023, 12, 31>>],
     [streak |-> 3, total_sessions |-> 4, last_session_date |-> <<2023, 2, 30>>],
     [streak |-> 3, total_sessions |-> 4,
      last_session_date |-> <<2023, 12, 5, "other">>],
     [streak |-> 3, total_sessions |-> 4,
      last_session_date |-> <<2023, 12, 29, "other">>],
     [streak |-> 0, total_sessions |-> 0, last_session_date |-> EmptyDate]}

\* d with key k set to v
With(d, k, v) == [x \in DOMAIN d \cup {k} |-> IF x = k THEN v ELSE d[x]]

\* the files whose every part _load can use
WellFormedFiles ==
    {[kind |-> "json", data |-> With(s, "cards", EmptyObject)] : s \in SessionInputs}
    \cup {[kind |-> "json", data |-> s] : s \in SessionInputs}
    \cup {[kind |-> "json",
           data |-> [streak |-> 1, total_sessions |-> 1,
                     last_session_date |-> <<2023, 12, 29>>,
                     cards |-> Object(c, IF "b" \in DOMAIN c THEN <<"a", "b">>
                                         ELSE <<"a">>)]] :
             c \in CardsInputs}

\* card records that CardState(**state) rejects: a key that is no field,
\* and no hanzi
BadRecords == {[hanzi |-> "b", bogus |-> 1], [interval |-> 6]}

\* malformed files: a directory, bytes that are no text, text that is no
\* JSON, JSON that json.loads does not get through, JSON that is no object,
\* "cards" that is no object, and a record that does not construct after
\* or before one that does
MalformedFiles ==
    {[kind |-> "directory"], [kind |-> "undecodable"], [kind |-> "not_json"],
     [kind |-> "too_deep"], [kind |-> "huge_number"], [kind |-> "not_object"]}
    \cup {[kind |-> "json",
           data |-> [streak |-> 3, total_sessions |-> 4,
                     last_session_date |-> <<2023, 12, 29>>,
                     cards |-> [type |-> "array"]]]}
    \cup {[kind |-> "json",
           data |-> [streak |-> 3, total_sessions |-> 4,
                     last_session_date |-> <<2023, 12, 29>>,
                     cards |-> Object(
                         [a |-> StoredCard("a", Decimal(250, 0), <<1, 1>>, StartTime),
                          b |-> bad],
                         keys)]] :
             bad \in BadRecords, keys \in {<<"a", "b">>, <<"b", "a">>}}

StoreFiles == WellFormedFiles \cup MalformedFiles

\* a tracker constructed on one of the files
InitFile ==
    /\ store \in StoreFiles
    /\ raised = Load(store).raised
    /\ cards = Load(store).cards
    /\ order = Load(store).order
    /\ streak = Load(store).streak
    /\ last_session_date = Load(store).last_session_date
    /\ total_sessions = Load(store).total_sessions
    /\ now = StartTime
    /\ last = NoCall
    /\ asked = NoQuery

\* review called on any item of the catalog, in a call during which the
\* clock does not advance
FileReviewCall ==
    \E hanzi \in Ids, quality \in Qualities :
        \E reads \in ClockReads(4, now) :
            last.n < MaxFileReviews /\ Review(hanzi, quality, reads)

FileClockTick == now < StartTime + MaxFileTicks * ClockStep /\ Tick

NextFile ==
    \/ FileReviewCall
    \/ \E hanzi \in Ids : GetCard(hanzi)
    \/ SaveOnExit
    \/ Restart
    \/ FileClockTick

SpecFile == InitFile /\ [][NextFile]_vars

----------------------------------------------------------------------------
(***************************************************************************)
(* The program from its first start when a write of the progress file can  *)
(* fail and the user can interrupt a review or the save of the quit, all   *)
(* within one reading of the clock; the review mode looks up the card of   *)
(* any item of the catalog and the user grades the studied one.            *)
(***************************************************************************)
\* review called on the studied item: it returns, its write fails, or a
\* KeyboardInterrupt ends it
FaultReviewCall ==
    \E hanzi \in Studied, quality \in {1, 5} :
        \E reads \in ClockReads(4, now) :
            /\ last.n < MaxFaultReviews
            /\ \/ Review(hanzi, quality, reads)
               \/ ReviewWriteFails(hanzi, quality, reads)
               \/ \E point \in InterruptPoints, mode \in Modes :
                     ReviewInterrupted(hanzi, quality, reads, point, mode)

NextFaults ==
    \/ FaultReviewCall
    \/ \E hanzi \in Ids : GetCard(hanzi)
    \/ SaveOnExit
    \/ SaveOnExitFails
    \/ SaveOnExitInterrupted
    \/ Restart

SpecFaults == Init /\ [][NextFaults]_vars

----------------------------------------------------------------------------
(***************************************************************************)
(* The program from its first start with the calls of the menu that read   *)
(* the tracker: the due cards of the review mode and the statistics.       *)
(***************************************************************************)
\* review called on any item of the catalog, recalled perfectly
QueryReviewCall ==
    \E hanzi \in Ids, quality \in {5} :
        \E reads \in ClockReads(4, StartTime + MaxQueryTicks * ClockStep) :
            last.n < MaxQueryReviews /\ Review(hanzi, quality, reads)

DueCall ==
    \E reads \in ClockReads(Len(order), StartTime + MaxQueryTicks * ClockStep) :
        asked.n < MaxQueries /\ GetDueCards(reads)

StatsCall ==
    \E reads \in ClockReads(Len(order), StartTime + MaxQueryTicks * ClockStep) :
        asked.n < MaxQueries /\ GetStats(reads)

QueryClockTick == now < StartTime + MaxQueryTicks * ClockStep /\ Tick

NextQueries ==
    \/ QueryReviewCall
    \/ \E hanzi \in Ids : GetCard(hanzi)
    \/ DueCall
    \/ StatsCall
    \/ SaveOnExit
    \/ Restart
    \/ QueryClockTick

SpecQueries == Init /\ [][NextQueries]_vars

----------------------------------------------------------------------------
(***************************************************************************)
(* The program from its first start when review is called with any int as  *)
(* quality.                                                                *)
(***************************************************************************)
GradeReviewCall ==
    \E hanzi \in Studied, quality \in AnyQualities :
        \E reads \in ClockReads(4, StartTime + MaxGradeTicks * ClockStep) :
            last.n < MaxGradeReviews /\ Review(hanzi, quality, reads)

GradeClockTick == now < StartTime + MaxGradeTicks * ClockStep /\ Tick

NextGrades ==
    \/ GradeReviewCall
    \/ GradeClockTick

SpecGrades == Init /\ [][NextGrades]_vars

----------------------------------------------------------------------------
(***************************************************************************)
(* The program from its first start when one card is reviewed again and    *)
(* again: failed, passed with difficulty, or recalled perfectly.           *)
(***************************************************************************)
DrillReviewCall ==
    \E hanzi \in Studied, quality \in {2, 3, 5} :
        \E reads \in ClockReads(4, now) :
            last.n < MaxDrillReviews /\ Review(hanzi, quality, reads)

NextDrill == DrillReviewCall

SpecDrill == Init /\ [][NextDrill]_vars

----------------------------------------------------------------------------
(***************************************************************************)
(* The program from its first start when it is used on two days and        *)
(* started again between the reviews.                                      *)
(***************************************************************************)
\* review called on any item of the catalog, passed with difficulty
RestartReviewCall ==
    \E hanzi \in Ids, quality \in {3} :
        \E reads \in ClockReads(4, StartTime + MaxRestartTicks * ClockStep) :
            last.n < MaxRestartReviews /\ Review(hanzi, quality, reads)

RestartClockTick == now < StartTime + MaxRestartTicks * ClockStep /\ Tick

NextRestart ==
    \/ RestartReviewCall
    \/ \E hanzi \in Ids : GetCard(hanzi)
    \/ SaveOnExit
    \/ Restart
    \/ RestartClockTick

SpecRestart == Init /\ [][NextRestart]_vars

----------------------------------------------------------------------------
(***************************************************************************)
(* The program from its first start when it is used on several days, and   *)
(* midnight can pass during a call.                                        *)
(***************************************************************************)
\* review called on the studied item: failed, or recalled perfectly
DayReviewCall ==
    \E hanzi \in Studied, quality \in {1, 5} :
        \E reads \in ClockReads(4, StartTime + MaxDayTicks * ClockStep) :
            last.n < MaxDayReviews /\ Review(hanzi, quality, reads)

DayClockTick == now < StartTime + MaxDayTicks * ClockStep /\ Tick

NextDays ==
    \/ DayReviewCall
    \/ Restart
    \/ DayClockTick

SpecDays == Init /\ [][NextDays]_vars

----------------------------------------------------------------------------
(***************************************************************************)
(* The program started on a progress file that holds a session date: the   *)
(* date of a later day, or the date of the new year's first day as the     *)
(* program writes it ("2024-01-01") and as it does not ("2024-1-1"), or    *)
(* the date of the day before as the program does not write it (the year   *)
(* of 2023-12-31 in full-width digits).                                    *)
(***************************************************************************)
DateFiles ==
    {[kind |-> "json",
      data |-> [streak |-> 3, total_sessions |-> 4, last_session_date |-> date]] :
        date \in {<<2023, 12, 31>>, <<2023, 12, 31, "other">>, <<2024, 1, 1>>,
                  <<2024, 1, 1, "other">>}}

\* a tracker constructed on one of the files
InitDates ==
    /\ store \in DateFiles
    /\ raised = Load(store).raised
    /\ cards = Load(store).cards
    /\ order = Load(store).order
    /\ streak = Load(store).streak
    /\ last_session_date = Load(store).last_session_date
    /\ total_sessions = Load(store).total_sessions
    /\ now = StartTime
    /\ last = NoCall
    /\ asked = NoQuery

\* review called on the studied item: failed, or recalled perfectly
DateReviewCall ==
    \E hanzi \in Studied, quality \in {1, 5} :
        \E reads \in ClockReads(4, StartTime + MaxDateTicks * ClockStep) :
            last.n < MaxDateReviews /\ Review(hanzi, quality, reads)

DateClockTick == now < StartTime + MaxDateTicks * ClockStep /\ Tick

NextDates ==
    \/ DateReviewCall
    \/ Restart
    \/ DateClockTick

SpecDates == InitDates /\ [][NextDates]_vars

----------------------------------------------------------------------------
(***************************************************************************)
(* Properties.  After a review, last holds the call (hanzi, quality, the   *)
(* values the clock gave it) and what it found: the card as get_card       *)
(* returned it and the streak, session date and session count before       *)
(* _update_streak.                                                         *)
(***************************************************************************)
Reviewed == last.n > 0
\* the reviewed card before and after the call
Before == last.card
After == cards[last.hanzi]

\* the calendar date that follows a date
NextDate(date) ==
    IF date[3] < DaysInMonth(date[1], date[2]) THEN <<date[1], date[2], date[3] + 1>>
    ELSE IF date[2] < 12 THEN <<date[1], date[2] + 1, 1>>
    ELSE <<date[1] + 1, 1, 1>>

\* date d1 is earlier than date d2
EarlierDate(d1, d2) ==
    \/ d1[1] < d2[1]
    \/ d1[1] = d2[1] /\ d1[2] < d2[2]
    \/ d1[1] = d2[1] /\ d1[2] = d2[2] /\ d1[3] < d2[3]

\* the UTC date that the latest review call read as today
ReviewDate == Today(last.reads[3])

\* the clock read as t by every is_due of one get_due_cards() call
AllAt(t) == [i \in 1..Len(order) |-> t]

\* the keys in a list
Keys(list) == {list[i] : i \in DOMAIN list}

\* C1: a review with quality >= 3 adds 1 to repetitions, correct_reviews and
\* total_reviews and sets interval to 1 after 0 repetitions, to 6 after 1,
\* and else to round(prior interval * prior ease_factor).
C1_SuccessfulReview ==
    (Reviewed /\ last.quality >= 3) =>
        /\ After.repetitions = Before.repetitions + 1
        /\ After.correct_reviews = Before.correct_reviews + 1
        /\ After.total_reviews = Before.total_reviews + 1
        /\ Before.repetitions = 0 => After.interval = 1
        /\ Before.repetitions = 1 => After.interval = 6
        /\ Before.repetitions > 1 =>
              After.interval = PyRound(FMulInt(Before.interval, Before.ease_factor))

\* a successful review of a card with interval 45 and ease factor
\* 2.9000000000000004: the product 130.50000000000003 rounds to 131
C1_Witness ==
    /\ Reviewed /\ last.quality >= 3
    /\ Before.repetitions = 4 /\ Before.interval = 45
    /\ Before.ease_factor = EaseAfter(Lit_2_5, <<5, 5, 5, 5>>)
    /\ After.interval = 131 /\ After.repetitions = 5

\* C2: a review with quality < 3 sets repetitions to 0 and interval to 1
\* whatever they were, leaves correct_reviews and adds 1 to total_reviews;
\* the card with repetitions 4, interval 10 and ease factor 2.0 graded 1
\* gets a lower ease factor that is still >= 1.3.
C2_FailedReview ==
    (Reviewed /\ last.quality < 3) =>
        /\ After.repetitions = 0
        /\ After.interval = 1
        /\ After.correct_reviews = Before.correct_reviews
        /\ After.total_reviews = Before.total_reviews + 1
        /\ (/\ Before.repetitions = 4 /\ Before.interval = 10
            /\ Before.ease_factor = FLit(200) /\ last.quality = 1)
           => (FGt(Before.ease_factor, After.ease_factor)
               /\ FGeq(After.ease_factor, FLit(130)))

\* the card with repetitions 4, interval 10 and ease factor 2.0 after a
\* review with quality 1
C2_Witness ==
    /\ Reviewed /\ last.quality = 1
    /\ Before.repetitions = 4 /\ Before.interval = 10
    /\ Before.ease_factor = FLit(200)
    /\ After.repetitions = 0 /\ After.interval = 1
    /\ After.ease_factor.h = 146

\* C3: every card of the tracker has ease_factor >= 1.3, after any reviews.
C3_EaseFloor ==
    \A k \in DOMAIN cards : FGeq(cards[k].ease_factor, FLit(130))

\* a second review with quality 0 in a row: 1.7000000000000002 - 0.8 is
\* below 1.3 and the card holds 1.3
C3_Witness ==
    /\ last.n >= 2 /\ last.quality = 0
    /\ FGt(FLit(130), FAdd(Before.ease_factor, EaseDelta(0)))
    /\ After.ease_factor = FLit(130)

\* C4: total_reviews >= correct_reviews >= 0 for every card, and no
\* operation lowers either counter of a card.
C4_Counters ==
    /\ [](\A k \in DOMAIN cards :
            cards[k].total_reviews >= cards[k].correct_reviews
            /\ cards[k].correct_reviews >= 0)
    /\ [][\A k \in DOMAIN cards \cap DOMAIN cards' :
            /\ cards'[k].total_reviews >= cards[k].total_reviews
            /\ cards'[k].correct_reviews >= cards[k].correct_reviews]_vars

\* a card reviewed three times, once without success
C4_Witness ==
    \E k \in DOMAIN cards :
        cards[k].total_reviews = 3 /\ cards[k].correct_reviews = 2

\* C5: after a review whose scheduling statement read the clock as t, the
\* card's next_review is t + interval * 86400 with interval >= 1; the card
\* is in get_due_cards() exactly when the clock, as read for it, is at or
\* after that time, and get_due_cards() lists exactly the cards whose
\* next_review <= the clock as read for them.
C5_DueAfterInterval ==
    /\ Reviewed =>
          /\ After.interval >= 1
          /\ After.next_review = last.reads[2] + After.interval * 86400
          /\ last.hanzi \in Keys(get_due_cards(cards, order, AllAt(now)))
                <=> now >= last.reads[2] + After.interval * 86400
    /\ \A reads \in ClockReads(Len(order), now + MaxCallTicks * ClockStep) :
          Keys(get_due_cards(cards, order, reads))
              = {order[i] : i \in {j \in DOMAIN order :
                                      cards[order[j]].next_review <= reads[j]}}

\* the reviewed card is due again: one day after its scheduling, to the
\* second, in a review that set interval 1 and in which time passed
\* between last_reviewed and the scheduling
C5_Witness ==
    /\ Reviewed /\ After.interval = 1
    /\ After.last_reviewed < last.reads[2]
    /\ now = last.reads[2] + 86400
    /\ last.hanzi \in Keys(get_due_cards(cards, order, AllAt(now)))

\* C6: a review on the date that follows last_session_date adds 1 to streak.
C6_NextDayStreak ==
    (/\ Reviewed /\ ParsesAsDate(last.last_session_date)
     /\ ReviewDate = NextDate(last.last_session_date))
    => streak = last.streak + 1

\* a review on 2024-01-01 after a session on 2023-12-31
C6_Witness ==
    /\ Reviewed /\ last.last_session_date = <<2023, 12, 31>>
    /\ ReviewDate = <<2024, 1, 1>>
    /\ last.streak >= 1 /\ streak = last.streak + 1

\* C7: a review more than one day after last_session_date sets streak to 1.
C7_GapResetsStreak ==
    (/\ Reviewed /\ ParsesAsDate(last.last_session_date)
     /\ EarlierDate(NextDate(last.last_session_date), ReviewDate))
    => streak = 1

\* a review three days after the last session, with a streak of 3 before
C7_Witness ==
    /\ Reviewed /\ last.last_session_date = <<2023, 12, 27>>
    /\ ReviewDate = <<2023, 12, 30>>
    /\ last.streak = 3 /\ streak = 1

\* C8: a review while last_session_date is empty sets streak to 1,
\* whatever it was.
C8_FirstSessionStreak ==
    (Reviewed /\ last.last_session_date = EmptyDate) => streak = 1

\* C9: a review on the date last_session_date leaves streak, total_sessions
\* and last_session_date; a review on another date adds 1 to total_sessions
\* and sets last_session_date to the date of the review.
C9_SessionCount ==
    Reviewed =>
        IF /\ ParsesAsDate(last.last_session_date)
           /\ DaysFromCivil(last.last_session_date) = DaysFromCivil(ReviewDate)
        THEN /\ streak = last.streak
             /\ total_sessions = last.total_sessions
             /\ last_session_date = last.last_session_date
        ELSE /\ total_sessions = last.total_sessions + 1
             /\ last_session_date = ReviewDate

\* the second review of the second day, after one on the day before: the
\* streak of 2, the two sessions and the date of the day stay
C9_Witness ==
    /\ Reviewed /\ last.n = 3
    /\ last.last_session_date = ReviewDate /\ ReviewDate = <<2023, 12, 31>>
    /\ last.streak = 2 /\ streak = 2
    /\ last.total_sessions = 2 /\ total_sessions = 2
    /\ last_session_date = <<2023, 12, 31>>

\* C10: total_sessions and streak change at most once per date: a step
\* that changes either is a review that adds 1 to total_sessions and moves
\* last_session_date to the date it read as today, which is later than
\* the one before.
C10_OncePerDay ==
    [][(total_sessions' # total_sessions \/ streak' # streak) =>
          /\ last'.n = last.n + 1
          /\ total_sessions' = total_sessions + 1
          /\ last_session_date' = Today(last'.reads[3])
          /\ last_session_date # EmptyDate =>
                EarlierDate(last_session_date, last_session_date')]_vars

\* three reviews on one date are one session
C10_Witness ==
    /\ last.n = 3 /\ total_sessions = 1 /\ streak = 1
    /\ last_session_date = <<2023, 12, 30>>

\* whether _load finds something wrong with the file: it is no JSON object
\* that json.loads returns, its "cards" is no object, or a record of it
\* does not construct
Malformed(file) ==
    \/ file.kind \in {"directory", "undecodable", "not_json", "too_deep",
                      "huge_number", "not_object"}
    \/ /\ file.kind = "json"
       /\ LET cs == Get(file.data, "cards", EmptyObject)
          IN  \/ cs.type # "object"
              \/ \E k \in DOMAIN cs.members : ~Constructs(cs.members[k])

\* C11: constructing a tracker never raises: for a missing file and for
\* every kind of malformed content, load completes and no exception leaves it.
C11_LoadNeverRaises == raised = NoException

\* C12: when the file is malformed, the tracker after load is fresh and
\* empty: no cards, streak 0, no session date, no sessions; nothing of the
\* file is kept.
C12_MalformedLoadsFresh ==
    (Malformed(store) /\ Load(store).raised = NoException)
    => Load(store) = FreshTracker

\* C13: saving the tracker and loading the file into a new tracker gives the
\* same item identifiers and, for every item, the same ease_factor,
\* interval, repetitions, next_review, total_reviews, correct_reviews and
\* last_reviewed.
C13_SaveLoadRoundTrip ==
    raised = NoException =>
        LET loaded == Load(Save(cards, order, streak, last_session_date,
                                total_sessions))
        IN  /\ loaded.raised = NoException
            /\ DOMAIN loaded.cards = DOMAIN cards
            /\ \A k \in DOMAIN cards : \A f \in CardFields \ {"hanzi"} :
                  loaded.cards[k][f] = cards[k][f]

\* a reviewed card whose ease factor takes 17 digits to write
\* (3.0000000000000004 is written with the digits 4 after 3.00)
C13_Witness ==
    /\ Reviewed /\ raised = NoException
    /\ After.ease_factor = EaseAfter(Lit_2_5, <<5, 5, 5, 5, 5>>)
    /\ float_repr(After.ease_factor) = Decimal(300, 4)
    /\ FLit(300) # After.ease_factor

\* C14: after every review call that returns, the file holds the tracker's
\* state: every card, streak, last_session_date and total_sessions, as they
\* are after the card update and the streak update.
C14_ReviewPersistsState ==
    [][(last'.n = last.n + 1 /\ last'.outcome = "returned") =>
          LET loaded == Load(store')
          IN  /\ loaded.cards = cards'
              /\ loaded.order = order'
              /\ loaded.streak = streak'
              /\ loaded.last_session_date = last_session_date'
              /\ loaded.total_sessions = total_sessions'
              /\ loaded.raised = NoException]_vars

\* a review that returned after one that did not, with a second card in
\* the tracker: the file holds both cards, both reviews of the reviewed
\* card and the session
C14_Witness ==
    /\ last.outcome = "returned" /\ last.returned = 1 /\ last.n = 2
    /\ DOMAIN cards = Ids
    /\ cards[last.hanzi].total_reviews = 2
    /\ \E k \in Ids : k # last.hanzi /\ cards[k].total_reviews = 0
    /\ Load(store).cards = cards
    /\ Load(store).streak = 1 /\ streak = 1 /\ total_sessions = 1

\* C15: when a review is interrupted, at any point, the file as loaded
\* afterwards still has every review that returned before: each card holds
\* at least as many reviews as returned.
C15_InterruptKeepsEarlierReviews ==
    (last.outcome = "interrupted" /\ last.returned > 0) =>
        \A hanzi \in Studied :
            /\ hanzi \in DOMAIN Load(store).cards
            /\ Load(store).cards[hanzi].total_reviews >= last.returned

\* C16: when the write of the file fails during review, OSError leaves
\* review and ends the operation, and a call of review returns only with
\* the file that save() writes of the tracker's state.
C16_WriteFailureSurfaces ==
    [][last'.n = last.n + 1 =>
          /\ last'.returned = last.returned + 1 =>
                store' = Save(cards', order', streak', last_session_date',
                              total_sessions')
          /\ last'.outcome = "OSError" =>
                /\ raised' = "OSError"
                /\ last'.returned = last.returned
          /\ store' = CutInCharacter =>
                /\ raised' = "OSError"
                /\ last'.returned = last.returned]_vars

\* a review whose write failed after one that returned: OSError was raised,
\* the tracker holds two reviews and the file one or none
C16_Witness ==
    /\ last.outcome = "OSError" /\ raised = "OSError"
    /\ last.returned = 1 /\ last.n = 2
    /\ cards[last.hanzi].total_reviews = 2
    /\ \A k \in DOMAIN Load(store).cards : Load(store).cards[k].total_reviews < 2

\* C17: get_card(id) returns the record of an id that is in the mapping
\* and leaves every field of every card; for an id that is not, it inserts
\* a record with ease_factor 2.5, interval 0, repetitions 0, next_review 0,
\* total_reviews 0, correct_reviews 0 and last_reviewed 0 and leaves the
\* other cards; a second call changes nothing.
C17_GetOrCreateCard ==
    \A hanzi \in Ids :
        LET got == get_card(cards, hanzi)
        IN  /\ hanzi \in DOMAIN cards => got = cards
            /\ hanzi \notin DOMAIN cards =>
                  /\ DOMAIN got = DOMAIN cards \cup {hanzi}
                  /\ \A k \in DOMAIN cards : got[k] = cards[k]
                  /\ got[hanzi] = [hanzi           |-> hanzi,
                                   ease_factor     |-> parse_float(Decimal(250, 0)),
                                   interval        |-> 0,
                                   repetitions     |-> 0,
                                   next_review     |-> 0,
                                   total_reviews   |-> 0,
                                   correct_reviews |-> 0,
                                   last_reviewed   |-> 0]
            /\ get_card(got, hanzi) = got

\* get_card made the card of "b" beside the card of "a", which has two
\* reviews and keeps them
C17_Witness ==
    /\ DOMAIN cards = {"a", "b"}
    /\ cards["b"] = CardState("b")
    /\ cards["a"].total_reviews = 2
    /\ DOMAIN Load(store).cards = {"a"}

RECURSIVE SumOfPercents(_, _)
\* the exact sum of 100 * correct_reviews / total_reviews over the cards
\* keys, as the fraction <<numerator, denominator>>
SumOfPercents(cs, keys) ==
    IF keys = {} THEN <<0, 1>>
    ELSE LET k    == CHOOSE x \in keys : TRUE
             rest == SumOfPercents(cs, keys \ {k})
         IN  <<rest[1] * cs[k].total_reviews + 100 * cs[k].correct_reviews * rest[2],
               rest[2] * cs[k].total_reviews>>

\* C18: avg_accuracy is the mean of correct_reviews / total_reviews * 100
\* over the cards with total_reviews >= 1 (the double is within 2^(-44) of
\* the exact mean), 0 when there is none, and a card without reviews,
\* there or added, does not change it.
C18_AvgAccuracy ==
    LET reviewed == {k \in DOMAIN cards : cards[k].total_reviews >= 1}
        avg      == get_stats(cards, order, streak, total_sessions,
                              AllAt(now)).avg_accuracy
        sum      == SumOfPercents(cards, reviewed)
    IN  /\ reviewed = {} => avg = QZero
        /\ reviewed # {} =>
              /\ avg.p * sum[2] * Cardinality(reviewed) = sum[1] * avg.q
              /\ avg.u <= avg.q * 2^14 /\ avg.u >= -(avg.q * 2^14)
        /\ avg = avg_accuracy([k \in reviewed |-> cards[k]],
                               SelectSeq(order, LAMBDA k : k \in reviewed))
        /\ \A hanzi \in Ids \ DOMAIN cards :
              avg_accuracy(get_card(cards, hanzi), get_card_order(order, hanzi)) = avg

\* two reviewed cards with 2 of 3 and 1 of 2 reviews correct: the mean of
\* 66.66666666666666 and 50.0 is 58.33333333333333
C18_Witness ==
    /\ DOMAIN cards = {"a", "b"}
    /\ cards["a"].correct_reviews = 2 /\ cards["a"].total_reviews = 3
    /\ cards["b"].correct_reviews = 1 /\ cards["b"].total_reviews = 2
    /\ accuracy(cards["a"]) = QFloat(200, -8192, 3)
    /\ avg_accuracy(cards, order) = QFloat(700, -16384, 12)

\* C19: mastery_level is "new" for 0 repetitions, "learning" for 1 and 2,
\* "reviewing" for 3 to 5 and "mastered" from 6 on, whatever the other
\* fields of the card are.
C19_MasteryLevel ==
    \A k \in DOMAIN cards :
        LET reps == cards[k].repetitions
        IN  /\ reps = 0 => mastery_level(cards[k]) = "new"
            /\ reps \in 1..2 => mastery_level(cards[k]) = "learning"
            /\ reps \in 3..5 => mastery_level(cards[k]) = "reviewing"
            /\ reps >= 6 => mastery_level(cards[k]) = "mastered"
            /\ mastery_level(CardState(k)) = "new"
            /\ mastery_level([CardState(k) EXCEPT !.repetitions = reps])
                  = mastery_level(cards[k])

\* a card that a successful review took from 5 to 6 repetitions is
\* mastered, beside one that is learning
C19_Witness ==
    /\ Reviewed /\ Before.repetitions = 5 /\ After.repetitions = 6
    /\ mastery_level(Before) = "reviewing" /\ mastery_level(After) = "mastered"
    /\ \E k \in DOMAIN cards : mastery_level(cards[k]) = "learning"

\* C20: a new card reviewed with the qualities 5, 4, 5: the first review
\* gives repetitions 1, interval 1, correct_reviews 1, total_reviews 1; the
\* second repetitions 2 and interval 6; the third repetitions 3 and
\* interval round(6 * ease_factor) with the ease_factor before the third
\* review's own update of it, 2.6, which is 16.
C20_Scenario545 ==
    (Reviewed /\ last.outcome = "returned") =>
        /\ (Before = CardState(last.hanzi) /\ last.quality = 5) =>
              /\ After.repetitions = 1 /\ After.interval = 1
              /\ After.correct_reviews = 1 /\ After.total_reviews = 1
              /\ After.ease_factor = FLit(260)
        /\ (/\ Before.total_reviews = 1 /\ Before.repetitions = 1
            /\ Before.interval = 1 /\ Before.ease_factor = FLit(260)
            /\ last.quality = 4) =>
              /\ After.repetitions = 2 /\ After.interval = 6
              /\ After.ease_factor = FLit(260)
        /\ (/\ Before.total_reviews = 2 /\ Before.repetitions = 2
            /\ Before.interval = 6 /\ Before.ease_factor = FLit(260)
            /\ last.quality = 5) =>
              /\ After.repetitions = 3
              /\ After.interval = PyRound(FMulInt(6, Before.ease_factor))
              /\ After.interval = 16

\* the third review of the scenario: 6 * 2.6 is 15.600000000000001, the
\* interval is 16 and the ease factor after it 2.7
C20_Witness ==
    /\ last.n = 3 /\ last.quality = 5 /\ last.outcome = "returned"
    /\ Before.total_reviews = 2 /\ Before.repetitions = 2
    /\ Before.interval = 6 /\ Before.ease_factor = FLit(260)
    /\ After.repetitions = 3 /\ After.interval = 16
    /\ After.correct_reviews = 3 /\ After.ease_factor = FLit(270)

\* C21: from no progress file, the mapping starts empty and an id becomes a
\* key of it only in a review or get_card call with that id, or when a
\* restart reads it from the file, where a key is written only from the
\* mapping; get_due_cards() and get_stats() leave every card, the streak,
\* the session date, the session count and the file as they are.
C21_LazyCards ==
    /\ DOMAIN cards = {} /\ DOMAIN Load(store).cards = {}
    /\ [][/\ \A k \in Ids :
              (k \in DOMAIN cards' /\ k \notin DOMAIN cards) =>
                  \/ last'.n = last.n + 1 /\ last'.hanzi = k
                  \/ GetCard(k)
                  \/ k \in DOMAIN Load(store).cards
          /\ DOMAIN Load(store').cards \subseteq
                 DOMAIN Load(store).cards \cup DOMAIN cards'
          /\ asked'.n = asked.n + 1 =>
                 UNCHANGED <<cards, order, streak, last_session_date,
                             total_sessions, store>>]_vars

\* get_stats() counted the one reviewed card as due a day after its
\* review; the mapping and the file hold that card only
C21_Witness ==
    /\ Reviewed /\ asked.n = 1 /\ asked.op = "get_stats"
    /\ now = last.reads[2] + SecondsPerDay
    /\ asked.stats.total_learned = 1 /\ asked.stats.due_now = 1
    /\ DOMAIN cards = {"a"} /\ cards["a"].total_reviews = 1
    /\ streak = 1 /\ Load(store).cards = cards

\* C22: a review with quality 5, 4, 3, 2, 1, 0 changes ease_factor by
\* +0.10, 0, -0.14, -0.32, -0.54, -0.80 (in hundredths, and as a double to
\* within 2^(-51)) and holds it at 1.3 if that is less; on success and on
\* failure alike, and after the interval is set from the ease_factor before
\* the review; it falls by at most 0.80 and rises by at most 0.10.
C22_EaseChange ==
    (Reviewed /\ last.outcome = "returned" /\ last.quality \in 0..5) =>
        LET change == <<-80, -54, -32, -14, 0, 10>>[last.quality + 1]
            target == Before.ease_factor.h + change
            drift  == After.ease_factor.u - Before.ease_factor.u
        IN  /\ target > 130 =>
                  /\ After.ease_factor.h = target
                  /\ drift <= 100 * 2^7 /\ drift >= -(100 * 2^7)
            /\ target < 130 => After.ease_factor = FLit(130)
            /\ target = 130 =>
                  /\ After.ease_factor.h = 130
                  /\ FGeq(After.ease_factor, FLit(130))
                  /\ \/ After.ease_factor = FLit(130)
                     \/ drift <= 100 * 2^7 /\ drift >= -(100 * 2^7)
            /\ After.ease_factor.h - Before.ease_factor.h <= 10
            /\ Before.ease_factor.h - After.ease_factor.h <= 80
            /\ last.quality = 4 => After.ease_factor = Before.ease_factor
            /\ (last.quality >= 3 /\ Before.repetitions >= 2) =>
                  After.interval = PyRound(FMulInt(Before.interval, Before.ease_factor))

\* a failed review took 0.32 (as a double, 0.32000000000000006) from
\* 2.9000000000000004, which left 2.58, and a card with 1.4999999999999998
\* is held at 1.3
C22_Witness ==
    /\ Reviewed /\ last.quality = 2
    /\ Before.ease_factor = EaseAfter(Lit_2_5, <<5, 5, 5, 5>>)
    /\ Before.ease_factor # FLit(290)
    /\ EaseDelta(2) # FLit(-32)
    /\ After.ease_factor = FLit(258)
    /\ After.repetitions = 0
    /\ NextEase(EaseAfter(Lit_2_5, <<2, 1, 3>>), 2) = FLit(130)

\* C23: review with a quality outside 0..5 returns and writes the file; a
\* quality above 5 counts as a success and one below 0 as a failure, and
\* the ease factor changes by 0.1 - (5 - q) * (0.08 + (5 - q) * 0.02) of
\* the quality q as it was passed (in hundredths, 10 - (5 - q) * (8 + 2 *
\* (5 - q))); the card has ease_factor >= 1.3, interval >= 1 and
\* total_reviews >= correct_reviews.
C23_QualityNotValidated ==
    (Reviewed /\ last.quality \notin 0..5) =>
        LET q == last.quality
            change == 10 - (5 - q) * (8 + 2 * (5 - q))
        IN  /\ last.outcome = "returned" /\ raised = NoException
            /\ Load(store).cards = cards
            /\ After.total_reviews = Before.total_reviews + 1
            /\ q > 5 =>
                  /\ After.repetitions = Before.repetitions + 1
                  /\ After.correct_reviews = Before.correct_reviews + 1
                  /\ Before.repetitions = 0 => After.interval = 1
                  /\ Before.repetitions = 1 => After.interval = 6
                  /\ Before.repetitions > 1 => After.interval > Before.interval
            /\ q < 0 =>
                  /\ After.repetitions = 0 /\ After.interval = 1
                  /\ After.correct_reviews = Before.correct_reviews
            /\ After.ease_factor.h =
                  IF Before.ease_factor.h + change > 130
                  THEN Before.ease_factor.h + change ELSE 130
            /\ FGeq(After.ease_factor, FLit(130))
            /\ After.interval >= 1
            /\ After.total_reviews >= After.correct_reviews

\* review with quality -1 and then with quality 7: the first is a failure
\* that takes 1.1 from 2.5, the second a success that adds 0.18 to 1.4
C23_Witness ==
    /\ last.n = 2 /\ last.quality = 7 /\ last.outcome = "returned"
    /\ Before.total_reviews = 1 /\ Before.correct_reviews = 0
    /\ Before.repetitions = 0 /\ Before.ease_factor.h = 140
    /\ After.repetitions = 1 /\ After.interval = 1 /\ After.correct_reviews = 1
    /\ After.ease_factor.h = 158
    /\ Load(store).cards = cards

\* the latest review was a lapse: a failure of a card that had been
\* answered correctly in the review before
Lapsed == Reviewed /\ last.quality < 3 /\ Before.repetitions >= 1

RECURSIVE ReviewedWith(_, _)
\* the card after reviews with the qualities qs
ReviewedWith(card, qs) ==
    IF qs = <<>> THEN card
    ELSE ReviewedWith(Sm2Update(card, Head(qs), now, now), Tail(qs))

RECURSIVE RecoversFaster(_, _, _)
\* on every sequence of at most n correct answers, the card lapsed is
\* mastered before the card fresh is, or has at every review an interval
\* at least as long
RecoversFaster(lapsed, fresh, n) ==
    \/ n = 0
    \/ \A q \in 3..5 :
          LET l == Sm2Update(lapsed, q, now, now)
              f == Sm2Update(fresh, q, now, now)
          IN  \/ mastery_level(l) = "mastered" /\ mastery_level(f) # "mastered"
              \/ l.interval >= f.interval /\ RecoversFaster(l, f, n - 1)

RECURSIVE RecoversAsEaseTells(_, _, _, _)
\* on every sequence of at most n correct answers, the cards lapsed and
\* fresh have the same mastery level after every review, and the intervals
\* of lapsed are at least (sign 1) or at most (sign -1) those of fresh
RecoversAsEaseTells(lapsed, fresh, sign, n) ==
    \/ n = 0
    \/ \A q \in 3..5 :
          LET l == Sm2Update(lapsed, q, now, now)
              f == Sm2Update(fresh, q, now, now)
          IN  /\ mastery_level(l) = mastery_level(f)
              /\ sign * l.interval >= sign * f.interval
              /\ RecoversAsEaseTells(l, f, sign, n - 1)

\* C24 as claimed: after a lapse, the card reaches "mastered" in fewer
\* correct answers than a new card given the same answers, or its
\* intervals are at least as long as the new card's.
C24_LapsedRecoversFaster ==
    Lapsed => RecoversFaster(After, CardState(last.hanzi), MaxRun)

\* C24 as amended: after a lapse, the card has the mastery level of a new
\* card after every one of the same correct answers ("mastered" after six),
\* its intervals are at least as long as the new card's if its ease_factor
\* after the lapse is at least 2.5, and at most as long if it is at most 2.5.
C24_LapsedRecovery ==
    Lapsed =>
        /\ After.repetitions = 0
        /\ mastery_level(ReviewedWith(After, <<3, 4, 5, 3, 4>>)) = "reviewing"
        /\ mastery_level(ReviewedWith(After, <<3, 4, 5, 3, 4, 5>>)) = "mastered"
        /\ FGeq(After.ease_factor, Lit_2_5) =>
              RecoversAsEaseTells(After, CardState(last.hanzi), 1, MaxRun)
        /\ FGeq(Lit_2_5, After.ease_factor) =>
              RecoversAsEaseTells(After, CardState(last.hanzi), -1, MaxRun)

\* a lapse after four perfect reviews leaves the ease factor 2.58: three
\* perfect reviews then give the interval 17, and 16 to a new card; they
\* give 15 to a card that lapsed after one perfect review (2.28)
C24_Witness ==
    /\ Lapsed /\ last.n = 5 /\ last.quality = 2
    /\ Before.repetitions = 4 /\ Before.interval = 45
    /\ After.ease_factor = FLit(258)
    /\ ReviewedWith(After, <<5, 5, 5>>).interval = 17
    /\ ReviewedWith(CardState(last.hanzi), <<5, 5, 5>>).interval = 16
    /\ ReviewedWith([After EXCEPT !.ease_factor = FLit(228)], <<5, 5, 5>>).interval = 15
    /\ mastery_level(ReviewedWith(After, <<5, 5, 5, 5, 5, 5>>)) = "mastered"

\* C25: every card record of the file is in the mapping after load, with
\* the fields it has as the file gives them, the fields it lacks at their
\* defaults, and a key that is no field of a card ignored (hanzi, the one
\* field without a default, is in every record).
C25_SchemaDriftTolerated ==
    (/\ store.kind = "json"
     /\ Get(store.data, "cards", EmptyObject).type = "object"
     /\ \A k \in DOMAIN Get(store.data, "cards", EmptyObject).members :
           "hanzi" \in DOMAIN Get(store.data, "cards", EmptyObject).members[k]) =>
        LET records == Get(store.data, "cards", EmptyObject).members
            loaded  == Load(store).cards
        IN  \A k \in DOMAIN records :
                /\ k \in DOMAIN loaded
                /\ \A f \in (DOMAIN records[k] \cap CardFields) \ {"ease_factor"} :
                      loaded[k][f] = records[k][f]
                /\ "ease_factor" \in DOMAIN records[k] =>
                      loaded[k].ease_factor = parse_float(records[k].ease_factor)
                /\ \A f \in CardFields \ (DOMAIN records[k] \cup {"hanzi"}) :
                      loaded[k][f] = CardState(k)[f]

\* C26: a review call leaves every card but the one of its id as it is,
\* field by field, and changes no more than that card, the streak, the
\* session date, the session count and the file (the keys it had stay in
\* their order); no call of review, get_card or save takes a card out of
\* the mapping (a restart builds the mapping again from the file).
C26_ReviewFrame ==
    [][/\ last'.n = last.n + 1 =>
              /\ \A k \in DOMAIN cards \ {last'.hanzi} :
                    k \in DOMAIN cards' /\ cards'[k] = cards[k]
              /\ DOMAIN cards' = DOMAIN cards \cup {last'.hanzi}
              /\ order' = get_card_order(order, last'.hanzi)
              /\ asked' = asked
       /\ Restart \/ DOMAIN cards \subseteq DOMAIN cards']_vars

\* a review of "b" beside the card of "a" that the file gave: "a" has its
\* 4 repetitions, its interval 45 and the time of its own review
C26_Witness ==
    /\ Reviewed /\ last.hanzi = "b" /\ last.quality = 1
    /\ After.total_reviews = 3 /\ After.last_reviewed = last.reads[1]
    /\ DOMAIN cards = {"a", "b"}
    /\ cards["a"].repetitions = 4 /\ cards["a"].interval = 45
    /\ cards["a"].total_reviews = 5
    /\ cards["a"].last_reviewed < last.reads[1]
    /\ Load(store).cards["a"] = cards["a"]
    /\ streak = last.streak + 1

\* C27: from no progress file, after any reviews on any dates,
\* 0 <= streak <= total_sessions, and streak is 0 exactly if total_sessions
\* is 0 and exactly if last_session_date is empty; streak >= 1 after a review.
C27_StreakAndSessions ==
    /\ 0 <= streak /\ streak <= total_sessions
    /\ streak = 0 <=> total_sessions = 0
    /\ total_sessions = 0 <=> last_session_date = EmptyDate
    /\ Reviewed => streak >= 1

\* a review on 2024-01-01 after a session on 2023-12-30: the second
\* session starts the streak again at 1
C27_Witness ==
    /\ last.n >= 2
    /\ last.last_session_date = <<2023, 12, 30>>
    /\ last_session_date = <<2024, 1, 1>>
    /\ last.streak = 1 /\ streak = 1 /\ total_sessions = 2

\* C28: in a run of successful reviews of a card that began as a new card,
\* the interval grows with every review: it is 1 after the first success
\* of the run, 6 after the second, and after each later one at least the
\* interval before plus 1.
C28_IntervalGrows ==
    (Reviewed /\ last.quality >= 3) =>
        /\ Before.repetitions = 0 => After.interval = 1
        /\ Before.repetitions = 1 => (Before.interval = 1 /\ After.interval = 6)
        /\ Before.repetitions >= 2 =>
              /\ Before.interval >= 6
              /\ After.interval >= Before.interval + 1
        /\ After.interval > Before.interval \/ Before.repetitions = 0

\* the third success in a row of a card that was failed three times at
\* the start and has come down to the ease factor 1.3: the intervals
\* 1, 6, 8, and 10 and 13 after two more; 131 after five reviews with 5
C28_Witness ==
    /\ last.n = 6 /\ last.quality = 3
    /\ Before.repetitions = 2 /\ Before.interval = 6
    /\ Before.ease_factor = FLit(130)
    /\ After.interval = 8 /\ After.ease_factor = FLit(130)
    /\ ReviewedWith(After, <<3, 3>>).interval = 13
    /\ ReviewedWith(CardState("a"), <<5, 5, 5, 5, 5>>).interval = 131

\* a tracker constructed from file answers every call from the clock
\* value t0 on (the same half day, half a day later, a day later) as the
\* tracker tr does: get_due_cards, get_stats, and a review of any item
\* with any quality; a review a day after the clock value session, which
\* the latest review of tr read as today, makes streak and total_sessions
\* one higher than tr has them
RestartIsTransparent(tr, file, t0, session) ==
    \A started \in {Load(file)} :
        /\ started.raised = NoException
        /\ started.order = tr.order
        /\ \A t \in {t0, t0 + ClockStep, t0 + SecondsPerDay} :
              LET each == [i \in 1..Len(tr.order) |-> t]
              IN  /\ get_due_cards(started.cards, started.order, each)
                        = get_due_cards(tr.cards, tr.order, each)
                  /\ get_stats(started.cards, started.order, started.streak,
                               started.total_sessions, each)
                        = get_stats(tr.cards, tr.order, tr.streak,
                                    tr.total_sessions, each)
                  /\ \A hanzi \in Ids, quality \in Qualities :
                        review(started, hanzi, quality, <<t, t, t, t>>)
                            = review(tr, hanzi, quality, <<t, t, t, t>>)
        /\ \A hanzi \in Ids, quality \in Qualities :
              LET t    == session + SecondsPerDay
                  next == review(started, hanzi, quality, <<t, t, t, t>>)
              IN  /\ next.streak = tr.streak + 1
                  /\ next.total_sessions = tr.total_sessions + 1

\* C29: after a review that returned, a tracker constructed from the file
\* gives the same result as the tracker in memory for a later review, due
\* cards call and statistics call; a review on the next day, after the
\* restart, makes streak and total_sessions one higher than they were.
C29_RestartTransparent ==
    [][(last'.n = last.n + 1 /\ last'.outcome = "returned") =>
          RestartIsTransparent(
              [cards |-> cards', order |-> order', streak |-> streak',
               last_session_date |-> last_session_date',
               total_sessions |-> total_sessions', raised |-> raised'],
              store', now', last'.reads[3])]_vars

\* the review of the second day, after the review of a first day: the
\* streak and the sessions are one higher; the card's ease factor takes 17
\* digits to write (2.2199999999999998) and the file gives it back
C29_Witness ==
    /\ last.n = 2 /\ last.outcome = "returned"
    /\ last.reads[1] = StartTime + SecondsPerDay
    /\ last.last_session_date = Today(StartTime)
    /\ last.streak = 1 /\ streak = 2
    /\ last.total_sessions = 1 /\ total_sessions = 2
    /\ After.ease_factor # FLit(222)
    /\ float_repr(After.ease_factor) = Decimal(222, -2)
    /\ Load(store).cards = cards
    /\ Load(store).streak = 2

\* C30: when the write fails in review, the tracker in memory holds the
\* card update and the streak update of that review, and the file still
\* holds the state before it: a tracker constructed from the file is the
\* one that would have been constructed before the call.
C30_WriteFailureKeepsStore ==
    [][(last'.n = last.n + 1 /\ last'.outcome = "OSError") =>
          /\ cards'[last'.hanzi] = Sm2Update(last'.card, last'.quality,
                                             last'.reads[1], last'.reads[2])
          /\ last_session_date' = Today(last'.reads[3])
          /\ total_sessions' >= 1
          /\ Load(store') = Load(store)]_vars

====
